---- MODULE Spec2Model ----
(***************************************************************************)
(* Knuth's elevator simulator (TAOCP vol. 1, 2.2.5) as implemented in      *)
(* src/main/knuthElevator.go, lines 817-1520 (the complete variant).       *)
(*                                                                         *)
(* The simulator is a single-threaded discrete-event loop over the WAIT    *)
(* list, a doubly linked list with a head node.  The model keeps the list  *)
(* nodes and their LLINK/RLINK fields, so that insertion, deletion through *)
(* a stale handle and traversal are what the code does.                    *)
(***************************************************************************)
EXTENDS Integers, Sequences, FiniteSets, TLC

(***************************************************************************)
(* Program constants.                                                      *)
(***************************************************************************)
floorHome == 2
floors == 5

stateGoingUp == 7
stateGoingDown == 8
stateNeutral == 9

stepWaitForCall == 1
stepChangeOfState == 2
stepOpenDoors == 3
stepLetPeopleOutIn == 4
stepCloseDoors == 5
stepPrepareToMove == 6
stepGoUpAFloor == 7
stepGoDownAFloor == 8
stepSetInactionIndicator == 9

minGiveUpTime == 300
maxGiveUpTime == 1200
minInterTime == 10
maxInterTime == 900
maxTime == 10000

(***************************************************************************)
(* Bounds of the model.  The random source is replaced by a choice from    *)
(* small sets inside the ranges the code draws from.                       *)
(***************************************************************************)
MaxUsers == 2

GiveUpTimes == {300}
InterTimes == {10, 70, 270, 899}

(***************************************************************************)
(* Node identities.  nil is Go's nil pointer; the list heads are the nodes *)
(* made by newWaitQueue and newElevator; every other node is allocated by  *)
(* newNode and numbered in allocation order.                               *)
(***************************************************************************)
nil == 0
waitHead == 1
stackHead == 2
firstNode == 8

queueHead(f) == 3 + f

Heads == {waitHead, stackHead} \cup {queueHead(f) : f \in 0..(floors - 1)}

VARIABLES
    pc,         \* position of main: "start" before the first call, then "loop"
    time,       \* simulator.time
    userID,     \* simulator.userID
    callUp,     \* elevator.callUp
    callDown,   \* elevator.callDown
    callCar,    \* elevator.callCar
    floor,      \* elevator.floor
    d1, d2, d3, \* elevator.d1, d2, d3
    state,      \* elevator.state
    step,       \* elevator.step
    elev1,      \* elevator.elev1
    elev2,      \* elevator.elev2
    elev3,      \* elevator.elev3
    llink,      \* node.llink, by node
    rlink,      \* node.rlink, by node
    info,       \* node.info, by node
    nextNode,   \* the identity the next allocated node gets
    users,      \* the user objects, by id
    left,       \* history: the users that gave up or got out
    last,       \* history: the instruction main executed last
    hist        \* history: what the run did so far (see History)

vars == <<pc, time, userID, callUp, callDown, callCar, floor, d1, d2, d3,
          state, step, elev1, elev2, elev3, llink, rlink, info, nextNode,
          users, left, last, hist>>

(***************************************************************************)
(* The simulator as one record, so that a handler is a function from the   *)
(* state before it to the state after it.  ret holds the value returned by *)
(* the last list subroutine.                                               *)
(***************************************************************************)
Cur ==
    [time |-> time, userID |-> userID, callUp |-> callUp,
     callDown |-> callDown, callCar |-> callCar, floor |-> floor,
     d1 |-> d1, d2 |-> d2, d3 |-> d3, state |-> state, step |-> step,
     elev1 |-> elev1, elev2 |-> elev2, elev3 |-> elev3,
     llink |-> llink, rlink |-> rlink, info |-> info,
     nextNode |-> nextNode, users |-> users, left |-> left, ret |-> nil]

(***************************************************************************)
(* A wait element: nextTime, and nextInst as the name of the handler and   *)
(* the user its closure captured (0 for none).  imm records whether the    *)
(* element was made for IMMED.                                             *)
(***************************************************************************)
newWaitElement(nextTime, op, u, imm) ==
    [nextTime |-> nextTime, op |-> op, u |-> u, imm |-> imm]

(***************************************************************************)
(* Doubly linked lists.                                                    *)
(***************************************************************************)
newNode(s, i) ==
    LET n == s.nextNode IN
    [s EXCEPT !.llink = [x \in DOMAIN s.llink \cup {n} |->
                            IF x = n THEN nil ELSE s.llink[x]],
              !.rlink = [x \in DOMAIN s.rlink \cup {n} |->
                            IF x = n THEN nil ELSE s.rlink[x]],
              !.info = [x \in DOMAIN s.info \cup {n} |->
                            IF x = n THEN i ELSE s.info[x]],
              !.nextNode = n + 1,
              !.ret = n]

insertRight(s, x, p) ==
    IF x = nil \/ p = nil THEN s
    ELSE LET l1 == [s.llink EXCEPT ![p] = x]
             r1 == [s.rlink EXCEPT ![p] = s.rlink[x]]
             l2 == [l1 EXCEPT ![r1[x]] = p]
             r2 == [r1 EXCEPT ![x] = p]
         IN [s EXCEPT !.llink = l2, !.rlink = r2]

insertLeft(s, x, p) ==
    IF x = nil \/ p = nil THEN s
    ELSE LET r1 == [s.rlink EXCEPT ![p] = x]
             l1 == [s.llink EXCEPT ![p] = s.llink[x]]
             r2 == [r1 EXCEPT ![l1[x]] = p]
             l2 == [l1 EXCEPT ![x] = p]
         IN [s EXCEPT !.llink = l2, !.rlink = r2]

\* Faulty variant of delete: the deleted node keeps its links.
deleteNoReset(s, x) ==
    IF x = nil THEN s
    ELSE LET r1 == [s.rlink EXCEPT ![s.llink[x]] = s.rlink[x]]
             l1 == [s.llink EXCEPT ![r1[x]] = s.llink[x]]
         IN [s EXCEPT !.llink = l1, !.rlink = r1]

delete(s, x) ==
    IF x = nil THEN s
    ELSE LET r1 == [s.rlink EXCEPT ![s.llink[x]] = s.rlink[x]]
             l1 == [s.llink EXCEPT ![r1[x]] = s.llink[x]]
             l2 == [l1 EXCEPT ![x] = x]
             r2 == [r1 EXCEPT ![x] = x]
         IN [s EXCEPT !.llink = l2, !.rlink = r2]

(***************************************************************************)
(* SORTIN: scan from the rear for the first node whose nextTime is not     *)
(* greater, and insert to its right.  The head's element has nextTime 0.   *)
(***************************************************************************)
RECURSIVE sortInScan(_, _, _)
sortInScan(s, x, w) ==
    LET y == s.llink[x] IN
    IF w.nextTime >= s.info[y].nextTime
    THEN LET s1 == newNode(s, w) IN
         [insertRight(s1, y, s1.ret) EXCEPT !.ret = s1.ret]
    ELSE sortInScan(s, y, w)

\* Faulty variant of SORTIN: an element goes in front of those due at the same time.
RECURSIVE sortInScanStrict(_, _, _)
sortInScanStrict(s, x, w) ==
    LET y == s.llink[x] IN
    IF y = x \/ w.nextTime > s.info[y].nextTime
    THEN LET s1 == newNode(s, w) IN
         [insertRight(s1, y, s1.ret) EXCEPT !.ret = s1.ret]
    ELSE sortInScanStrict(s, y, w)

sortInStrict(s, x, w) == sortInScanStrict(s, x, w)

\* Faulty variant of SORTIN: no scan, the element goes to the front.
sortInFront(s, x, w) ==
    LET s1 == newNode(s, w) IN
    [insertRight(s1, x, s1.ret) EXCEPT !.ret = s1.ret]

sortIn(s, x, w) == sortInScan(s, x, w)

(***************************************************************************)
(* IMMED: insert at the front of the list.                                 *)
(***************************************************************************)
\* Faulty variant of IMMED: the element goes to the rear.
immedAtRear(s, x, w) ==
    LET s1 == newNode(s, w) IN
    [insertLeft(s1, x, s1.ret) EXCEPT !.ret = s1.ret]

immed(s, x, w) ==
    LET s1 == newNode(s, w) IN
    [insertRight(s1, x, s1.ret) EXCEPT !.ret = s1.ret]

(***************************************************************************)
(* The elevator's scheduling handles.  elev is the name of the field.      *)
(***************************************************************************)
\* Faulty variant of scheduleElevator: the previous element is not deleted.
scheduleElevatorNoCancel(s, elev, delay, op) ==
    LET s2 == sortIn(s, waitHead, newWaitElement(s.time + delay, op, 0, FALSE))
    IN [s2 EXCEPT ![elev] = s2.ret]

scheduleElevator(s, elev, delay, op) ==
    LET s1 == delete(s, s[elev])
        s2 == sortIn(s1, waitHead, newWaitElement(s1.time + delay, op, 0, FALSE))
    IN [s2 EXCEPT ![elev] = s2.ret]

scheduleElevatorImmediately(s, elev, op) ==
    LET s1 == delete(s, s[elev])
        s2 == immed(s1, waitHead, newWaitElement(s1.time, op, 0, TRUE))
    IN [s2 EXCEPT ![elev] = s2.ret]

(***************************************************************************)
(* Users.                                                                  *)
(***************************************************************************)
newUser(in, out, giveUpTime) ==
    [in |-> in, out |-> out, giveUpTime |-> giveUpTime,
     listNode |-> nil, giveUp |-> nil]

\* out := Int31n(floors - 1); if out >= in { out++ }
\* Faulty variant of the destination: a draw equal to the origin is kept.
destinationKeepOrigin(in, r) == IF r > in THEN r + 1 ELSE r

destination(in, r) == IF r >= in THEN r + 1 ELSE r

isAllCallsAboveFalse(s) ==
    \A j \in (s.floor + 1)..(floors - 1) :
        ~(s.callUp[j] \/ s.callDown[j] \/ s.callCar[j])

\* Faulty variant of isAllCallsBelowFalse: only the car calls are tested.
isAllCarCallsBelowFalse(s) ==
    \A j \in 0..(s.floor - 1) : ~s.callCar[j]

isAllCallsBelowFalse(s) ==
    \A j \in 0..(s.floor - 1) :
        ~(s.callUp[j] \/ s.callDown[j] \/ s.callCar[j])

(***************************************************************************)
(* Subroutine D.                                                           *)
(***************************************************************************)
anyCall(s, j) == s.callUp[j] \/ s.callCar[j] \/ s.callDown[j]

\* Faulty variant of the D3 scan: CALLDOWN is not tested.
decisionScanNoDown(s) ==
    LET C == {j \in 0..(floors - 1) : j # s.floor /\ (s.callUp[j] \/ s.callCar[j])}
    IN IF C = {} THEN floors ELSE CHOOSE j \in C : \A k \in C : j <= k

\* Faulty variant of the D3 scan: the largest j # FLOOR with a call.
decisionScanFromTop(s) ==
    LET C == {j \in 0..(floors - 1) : j # s.floor /\ anyCall(s, j)}
    IN IF C = {} THEN floors ELSE CHOOSE j \in C : \A k \in C : j >= k

\* D3: the smallest j # FLOOR with a call, or floors if there is none.
decisionScan(s) ==
    LET C == {j \in 0..(floors - 1) : j # s.floor /\ anyCall(s, j)}
    IN IF C = {} THEN floors ELSE CHOOSE j \in C : \A k \in C : j <= k

\* Faulty variant of D4 and D5: E6 is scheduled whatever the step is.
decisionSetStateAnyStep(s, j) ==
    LET s1 == IF s.floor > j THEN [s EXCEPT !.state = stateGoingDown]
              ELSE IF s.floor < j THEN [s EXCEPT !.state = stateGoingUp]
              ELSE s
    IN IF j # 2
       THEN scheduleElevator(s1, "elev1", 20, "E6")
       ELSE s1

\* D4 and D5, for the floor j that D3 found.
\* Faulty variant of D4 / D5: the state is set but a dormant elevator is not
\* started.
decisionSetStateNoStart(s, j) ==
    IF s.floor > j THEN [s EXCEPT !.state = stateGoingDown]
    ELSE IF s.floor < j THEN [s EXCEPT !.state = stateGoingUp]
    ELSE s

decisionSetState(s, j) ==
    LET s1 == IF s.floor > j THEN [s EXCEPT !.state = stateGoingDown]
              ELSE IF s.floor < j THEN [s EXCEPT !.state = stateGoingUp]
              ELSE s
    IN IF s1.step = stepWaitForCall /\ j # 2
       THEN scheduleElevator(s1, "elev1", 20, "E6")
       ELSE s1

\* Faulty variant of DECISION: a call at the home floor sends the elevator
\* to E6 instead of opening the doors.
decisionHomeToE6(s) ==
    IF s.state # stateNeutral THEN s
    ELSE IF s.step = stepWaitForCall /\ anyCall(s, floorHome)
    THEN scheduleElevator(s, "elev1", 20, "E6")
    ELSE LET j == decisionScan(s) IN
         IF j < floors THEN decisionSetState(s, j)
         ELSE IF s.step = stepPrepareToMove THEN decisionSetState(s, 2)
         ELSE s

\* Faulty variant of DECISION: from E6 with no call anywhere the elevator is
\* not sent to the home floor.
decisionNoWayHome(s) ==
    IF s.state # stateNeutral THEN s
    ELSE IF s.step = stepWaitForCall /\ anyCall(s, floorHome)
    THEN scheduleElevator(s, "elev1", 20, "E3")
    ELSE LET j == decisionScan(s) IN
         IF j < floors THEN decisionSetState(s, j)
         ELSE s

\* Faulty variant of DECISION: D2 keeps an E3 that is already due and
\* schedules E3 only when none is.
decisionKeepPendingE3(s) ==
    IF s.state # stateNeutral THEN s
    ELSE IF s.step = stepWaitForCall /\ anyCall(s, floorHome)
    THEN IF s.elev1 # nil /\ s.llink[s.elev1] # s.elev1
         THEN s
         ELSE scheduleElevator(s, "elev1", 20, "E3")
    ELSE LET j == decisionScan(s) IN
         IF j < floors THEN decisionSetState(s, j)
         ELSE IF s.step = stepPrepareToMove THEN decisionSetState(s, 2)
         ELSE s

decision(s) ==
    IF s.state # stateNeutral THEN s
    ELSE IF s.step = stepWaitForCall /\ anyCall(s, floorHome)
    THEN scheduleElevator(s, "elev1", 20, "E3")
    ELSE LET j == decisionScan(s) IN
         IF j < floors THEN decisionSetState(s, j)
         ELSE IF s.step = stepPrepareToMove THEN decisionSetState(s, 2)
         ELSE s

(***************************************************************************)
(* U1-U6.                                                                  *)
(***************************************************************************)
\* Faulty variant of U1: the next arrival is not scheduled.
userEnterNoSuccessor(s, in, r, giveUpTime, interTime) ==
    LET id == s.userID + 1
        u == newUser(in, destination(in, r), giveUpTime)
        s1 == [s EXCEPT !.userID = id,
                        !.users = [k \in 1..id |-> IF k = id THEN u ELSE s.users[k]]]
    IN immed(s1, waitHead, newWaitElement(s1.time, "U2", id, TRUE))

userEnterPrepareForSuccessor(s, in, r, giveUpTime, interTime) ==
    LET id == s.userID + 1
        u == newUser(in, destination(in, r), giveUpTime)
        s1 == [s EXCEPT !.userID = id,
                        !.users = [k \in 1..id |-> IF k = id THEN u ELSE s.users[k]]]
        s2 == sortIn(s1, waitHead, newWaitElement(s1.time + interTime, "U1", 0, FALSE))
    IN immed(s2, waitHead, newWaitElement(s2.time, "U2", id, TRUE))

\* Faulty variant of U2: doors that are closing are not opened again.
userSignalAndWaitNoReopen(s, u) ==
    LET in == s.users[u].in
        out == s.users[u].out
        s1 == IF s.floor = in /\ s.d3
              THEN scheduleElevatorImmediately(
                       [s EXCEPT !.d3 = FALSE, !.d1 = TRUE], "elev1", "E4")
              ELSE LET s2 == IF out > in
                             THEN [s EXCEPT !.callUp[in] = TRUE]
                             ELSE [s EXCEPT !.callDown[in] = TRUE]
                   IN IF ~s2.d2 \/ s2.step = stepWaitForCall
                      THEN decision(s2) ELSE s2
    IN immed(s1, waitHead, newWaitElement(s1.time, "U3", u, TRUE))

\* Faulty variant of U2: a user arriving at open doors leaves D3 set.
userSignalAndWaitKeepD3(s, u) ==
    LET in == s.users[u].in
        out == s.users[u].out
        s1 == IF s.floor = in /\ s.step = stepCloseDoors
              THEN scheduleElevatorImmediately(s, "elev1", "E3")
              ELSE IF s.floor = in /\ s.d3
              THEN scheduleElevatorImmediately(
                       [s EXCEPT !.d1 = TRUE], "elev1", "E4")
              ELSE LET s2 == IF out > in
                             THEN [s EXCEPT !.callUp[in] = TRUE]
                             ELSE [s EXCEPT !.callDown[in] = TRUE]
                   IN IF ~s2.d2 \/ s2.step = stepWaitForCall
                      THEN decision(s2) ELSE s2
    IN immed(s1, waitHead, newWaitElement(s1.time, "U3", u, TRUE))

\* Faulty variant of U2: a user arriving at open doors sets the flags but
\* does not start E4 again.
\* Faulty variant of U2: U3 is entered with SORTIN instead of IMMED.
userSignalAndWaitSortIn(s, u) ==
    LET in == s.users[u].in
        out == s.users[u].out
        s1 == IF s.floor = in /\ s.step = stepCloseDoors
              THEN scheduleElevatorImmediately(s, "elev1", "E3")
              ELSE IF s.floor = in /\ s.d3
              THEN scheduleElevatorImmediately(
                       [s EXCEPT !.d3 = FALSE, !.d1 = TRUE], "elev1", "E4")
              ELSE LET s2 == IF out > in
                             THEN [s EXCEPT !.callUp[in] = TRUE]
                             ELSE [s EXCEPT !.callDown[in] = TRUE]
                   IN IF ~s2.d2 \/ s2.step = stepWaitForCall
                      THEN decision(s2) ELSE s2
    IN sortIn(s1, waitHead, newWaitElement(s1.time, "U3", u, TRUE))

userSignalAndWaitNoRestart(s, u) ==
    LET in == s.users[u].in
        out == s.users[u].out
        s1 == IF s.floor = in /\ s.step = stepCloseDoors
              THEN scheduleElevatorImmediately(s, "elev1", "E3")
              ELSE IF s.floor = in /\ s.d3
              THEN [s EXCEPT !.d3 = FALSE, !.d1 = TRUE]
              ELSE LET s2 == IF out > in
                             THEN [s EXCEPT !.callUp[in] = TRUE]
                             ELSE [s EXCEPT !.callDown[in] = TRUE]
                   IN IF ~s2.d2 \/ s2.step = stepWaitForCall
                      THEN decision(s2) ELSE s2
    IN immed(s1, waitHead, newWaitElement(s1.time, "U3", u, TRUE))

userSignalAndWait(s, u) ==
    LET in == s.users[u].in
        out == s.users[u].out
        s1 == IF s.floor = in /\ s.step = stepCloseDoors
              THEN scheduleElevatorImmediately(s, "elev1", "E3")
              ELSE IF s.floor = in /\ s.d3
              THEN scheduleElevatorImmediately(
                       [s EXCEPT !.d3 = FALSE, !.d1 = TRUE], "elev1", "E4")
              ELSE LET s2 == IF out > in
                             THEN [s EXCEPT !.callUp[in] = TRUE]
                             ELSE [s EXCEPT !.callDown[in] = TRUE]
                   IN IF ~s2.d2 \/ s2.step = stepWaitForCall
                      THEN decision(s2) ELSE s2
    IN immed(s1, waitHead, newWaitElement(s1.time, "U3", u, TRUE))

userEnterQueue(s, u) ==
    LET s1 == newNode(s, u)
        s2 == [s1 EXCEPT !.users[u].listNode = s1.ret]
        s3 == insertLeft(s2, queueHead(s2.users[u].in), s2.users[u].listNode)
        s4 == sortIn(s3, waitHead,
                     newWaitElement(s3.time + s3.users[u].giveUpTime, "U4", u, FALSE))
    IN [s4 EXCEPT !.users[u].giveUp = s4.ret]

\* Faulty variant of U4: the user leaves only when the elevator is at
\* another floor and D1 is false.
userGiveUpBothRequired(s, u) ==
    IF s.floor # s.users[u].in /\ ~s.d1
    THEN [delete(s, s.users[u].listNode) EXCEPT !.left = s.left \cup {u}]
    ELSE s

\* Faulty variant of U4: the user leaves wherever the elevator is.
userGiveUpAlways(s, u) ==
    [delete(s, s.users[u].listNode) EXCEPT !.left = s.left \cup {u}]

userGiveUp(s, u) ==
    IF s.floor # s.users[u].in \/ ~s.d1
    THEN [delete(s, s.users[u].listNode) EXCEPT !.left = s.left \cup {u}]
    ELSE s

\* Faulty variant of U5: the user is not deleted from the floor queue.
userGetInNoDelete(s, u) ==
    LET s2 == delete(s, s.users[u].giveUp)
        s3 == insertLeft(s2, stackHead, s2.users[u].listNode)
        s4 == [s3 EXCEPT !.callCar[s3.users[u].out] = TRUE]
    IN IF s4.state = stateNeutral
       THEN scheduleElevator(
                [s4 EXCEPT !.state = IF s4.users[u].out > s4.users[u].in
                                     THEN stateGoingUp ELSE stateGoingDown],
                "elev2", 25, "E5")
       ELSE s4

\* Faulty variant of U5: the user's U4 is not cancelled.
userGetInKeepTimer(s, u) ==
    LET s1 == delete(s, s.users[u].listNode)
        s3 == insertLeft(s1, stackHead, s1.users[u].listNode)
        s4 == [s3 EXCEPT !.callCar[s3.users[u].out] = TRUE]
    IN IF s4.state = stateNeutral
       THEN scheduleElevator(
                [s4 EXCEPT !.state = IF s4.users[u].out > s4.users[u].in
                                     THEN stateGoingUp ELSE stateGoingDown],
                "elev2", 25, "E5")
       ELSE s4

userGetIn(s, u) ==
    LET s1 == delete(s, s.users[u].listNode)
        s2 == delete(s1, s1.users[u].giveUp)
        s3 == insertLeft(s2, stackHead, s2.users[u].listNode)
        s4 == [s3 EXCEPT !.callCar[s3.users[u].out] = TRUE]
    IN IF s4.state = stateNeutral
       THEN scheduleElevator(
                [s4 EXCEPT !.state = IF s4.users[u].out > s4.users[u].in
                                     THEN stateGoingUp ELSE stateGoingDown],
                "elev2", 25, "E5")
       ELSE s4

userGetOut(s, u) ==
    [delete(s, s.users[u].listNode) EXCEPT !.left = s.left \cup {u}]

(***************************************************************************)
(* E1-E9.                                                                  *)
(***************************************************************************)
\* Faulty variant of E1: the step of the elevator is left as it was.
executeWaitForCallKeepStep(s) == s

executeWaitForCall(s) == [s EXCEPT !.step = stepWaitForCall]

clearCallsHere(s) ==
    [s EXCEPT !.callUp[s.floor] = FALSE,
              !.callDown[s.floor] = FALSE,
              !.callCar[s.floor] = FALSE]

\* Faulty variant of E2: with no call ahead, the state becomes NEUTRAL or is
\* reversed according to the car calls behind alone.
executeChangeOfStateCarCallsBehind(s) ==
    LET s1 == [s EXCEPT !.step = stepChangeOfState]
        s2 == IF s1.state = stateGoingUp /\ isAllCallsAboveFalse(s1)
              THEN clearCallsHere(
                       [s1 EXCEPT !.state =
                            IF \A j \in 0..(s1.floor - 1) : ~s1.callCar[j]
                            THEN stateNeutral ELSE stateGoingDown])
              ELSE IF s1.state = stateGoingDown /\ isAllCallsBelowFalse(s1)
              THEN clearCallsHere(
                       [s1 EXCEPT !.state =
                            IF \A j \in (s1.floor + 1)..(floors - 1) : ~s1.callCar[j]
                            THEN stateNeutral ELSE stateGoingUp])
              ELSE s1
    IN scheduleElevatorImmediately(s2, "elev1", "E3")

executeChangeOfState(s) ==
    LET s1 == [s EXCEPT !.step = stepChangeOfState]
        s2 == IF s1.state = stateGoingUp /\ isAllCallsAboveFalse(s1)
              THEN clearCallsHere(
                       [s1 EXCEPT !.state = IF isAllCallsBelowFalse(s1)
                                            THEN stateNeutral ELSE stateGoingDown])
              ELSE IF s1.state = stateGoingDown /\ isAllCallsBelowFalse(s1)
              THEN clearCallsHere(
                       [s1 EXCEPT !.state = IF isAllCallsAboveFalse(s1)
                                            THEN stateNeutral ELSE stateGoingUp])
              ELSE s1
    IN scheduleElevatorImmediately(s2, "elev1", "E3")

executeOpenDoors(s) ==
    LET s1 == [s EXCEPT !.step = stepOpenDoors, !.d1 = TRUE, !.d2 = TRUE]
        s2 == scheduleElevator(s1, "elev3", 300, "E9")
        s3 == scheduleElevator(s2, "elev2", 76, "E5")
    IN scheduleElevator(s3, "elev1", 20, "E4")

\* The stack is searched from the head leftwards: most recently entered first.
RECURSIVE stackSearch(_, _)
stackSearch(s, p) ==
    LET q == s.llink[p] IN
    IF q = stackHead THEN nil
    ELSE IF s.users[s.info[q]].out = s.floor THEN q
    ELSE stackSearch(s, q)

\* Faulty variant of E4: the user at the rear of the queue is let in.
executeLetPeopleOutInFromRear(s) ==
    LET s1 == [s EXCEPT !.step = stepLetPeopleOutIn]
        p == stackSearch(s1, stackHead)
        q == s1.llink[queueHead(s1.floor)]
    IN IF p # nil
       THEN scheduleElevator(
                immed(s1, waitHead, newWaitElement(s1.time, "U6", s1.info[p], TRUE)),
                "elev1", 25, "E4")
       ELSE IF q # queueHead(s1.floor)
       THEN scheduleElevator(
                immed(s1, waitHead, newWaitElement(s1.time, "U5", s1.info[q], TRUE)),
                "elev1", 25, "E4")
       ELSE [s1 EXCEPT !.d1 = FALSE, !.d3 = TRUE]

\* Faulty variant of E4: a user waiting at the floor is let in before the
\* users in the car are let out.
executeLetPeopleOutInBoardFirst(s) ==
    LET s1 == [s EXCEPT !.step = stepLetPeopleOutIn]
        p == stackSearch(s1, stackHead)
        q == s1.rlink[queueHead(s1.floor)]
    IN IF q # queueHead(s1.floor)
       THEN scheduleElevator(
                immed(s1, waitHead, newWaitElement(s1.time, "U5", s1.info[q], TRUE)),
                "elev1", 25, "E4")
       ELSE IF p # nil
       THEN scheduleElevator(
                immed(s1, waitHead, newWaitElement(s1.time, "U6", s1.info[p], TRUE)),
                "elev1", 25, "E4")
       ELSE [s1 EXCEPT !.d1 = FALSE, !.d3 = TRUE]

\* Faulty variant of E4: when nobody is left, D3 is set and D1 stays.
executeLetPeopleOutInKeepD1(s) ==
    LET s1 == [s EXCEPT !.step = stepLetPeopleOutIn]
        p == stackSearch(s1, stackHead)
        q == s1.rlink[queueHead(s1.floor)]
    IN IF p # nil
       THEN scheduleElevator(
                immed(s1, waitHead, newWaitElement(s1.time, "U6", s1.info[p], TRUE)),
                "elev1", 25, "E4")
       ELSE IF q # queueHead(s1.floor)
       THEN scheduleElevator(
                immed(s1, waitHead, newWaitElement(s1.time, "U5", s1.info[q], TRUE)),
                "elev1", 25, "E4")
       ELSE [s1 EXCEPT !.d3 = TRUE]

executeLetPeopleOutIn(s) ==
    LET s1 == [s EXCEPT !.step = stepLetPeopleOutIn]
        p == stackSearch(s1, stackHead)
        q == s1.rlink[queueHead(s1.floor)]
    IN IF p # nil
       THEN scheduleElevator(
                immed(s1, waitHead, newWaitElement(s1.time, "U6", s1.info[p], TRUE)),
                "elev1", 25, "E4")
       ELSE IF q # queueHead(s1.floor)
       THEN scheduleElevator(
                immed(s1, waitHead, newWaitElement(s1.time, "U5", s1.info[q], TRUE)),
                "elev1", 25, "E4")
       ELSE [s1 EXCEPT !.d1 = FALSE, !.d3 = TRUE]

\* Faulty variant of E5: D3 stays set when the doors close.
executeCloseDoorsKeepD3(s) ==
    LET s1 == [s EXCEPT !.step = stepCloseDoors]
    IN IF s1.d1
       THEN scheduleElevator(s1, "elev2", 40, "E5")
       ELSE scheduleElevator(s1, "elev1", 20, "E6")

\* Faulty variant of E5: the doors start to close although D1 is true.
executeCloseDoorsWhileBusy(s) ==
    LET s1 == [s EXCEPT !.step = stepCloseDoors]
    IN scheduleElevator([s1 EXCEPT !.d3 = FALSE], "elev1", 20, "E6")

executeCloseDoors(s) ==
    LET s1 == [s EXCEPT !.step = stepCloseDoors]
    IN IF s1.d1
       THEN scheduleElevator(s1, "elev2", 40, "E5")
       ELSE scheduleElevator([s1 EXCEPT !.d3 = FALSE], "elev1", 20, "E6")

\* Faulty variant of E6: the car calls of every floor are cleared.
executePrepareToMoveClearAllCar(s) ==
    LET s1 == [s EXCEPT !.step = stepPrepareToMove,
                        !.callCar = [j \in 0..(floors - 1) |-> FALSE]]
        s2 == IF s1.state # stateGoingDown
              THEN [s1 EXCEPT !.callUp[s1.floor] = FALSE] ELSE s1
        s3 == IF s2.state # stateGoingUp
              THEN [s2 EXCEPT !.callDown[s2.floor] = FALSE] ELSE s2
        s4 == decision(s3)
    IN IF s4.state = stateNeutral
       THEN scheduleElevatorImmediately(s4, "elev1", "E1")
       ELSE LET s5 == IF s4.d2 THEN delete(s4, s4.elev3) ELSE s4
            IN IF s5.state = stateGoingUp
               THEN scheduleElevator(s5, "elev1", 15, "E7")
               ELSE scheduleElevator(s5, "elev1", 15, "E8")

\* Faulty variant of E6: both hall calls of the floor are cleared whatever
\* the state is.
executePrepareToMoveClearBothHall(s) ==
    LET s3 == [s EXCEPT !.step = stepPrepareToMove, !.callCar[s.floor] = FALSE,
                        !.callUp[s.floor] = FALSE, !.callDown[s.floor] = FALSE]
        s4 == decision(s3)
    IN IF s4.state = stateNeutral
       THEN scheduleElevatorImmediately(s4, "elev1", "E1")
       ELSE LET s5 == IF s4.d2 THEN delete(s4, s4.elev3) ELSE s4
            IN IF s5.state = stateGoingUp
               THEN scheduleElevator(s5, "elev1", 15, "E7")
               ELSE scheduleElevator(s5, "elev1", 15, "E8")

\* Faulty variant of E6: the activity E9 is not cancelled.
executePrepareToMoveKeepE9(s) ==
    LET s1 == [s EXCEPT !.step = stepPrepareToMove, !.callCar[s.floor] = FALSE]
        s2 == IF s1.state # stateGoingDown
              THEN [s1 EXCEPT !.callUp[s1.floor] = FALSE] ELSE s1
        s3 == IF s2.state # stateGoingUp
              THEN [s2 EXCEPT !.callDown[s2.floor] = FALSE] ELSE s2
        s4 == decision(s3)
    IN IF s4.state = stateNeutral
       THEN scheduleElevatorImmediately(s4, "elev1", "E1")
       ELSE IF s4.state = stateGoingUp
       THEN scheduleElevator(s4, "elev1", 15, "E7")
       ELSE scheduleElevator(s4, "elev1", 15, "E8")

executePrepareToMove(s) ==
    LET s1 == [s EXCEPT !.step = stepPrepareToMove, !.callCar[s.floor] = FALSE]
        s2 == IF s1.state # stateGoingDown
              THEN [s1 EXCEPT !.callUp[s1.floor] = FALSE] ELSE s1
        s3 == IF s2.state # stateGoingUp
              THEN [s2 EXCEPT !.callDown[s2.floor] = FALSE] ELSE s2
        s4 == decision(s3)
    IN IF s4.state = stateNeutral
       THEN scheduleElevatorImmediately(s4, "elev1", "E1")
       ELSE LET s5 == IF s4.d2 THEN delete(s4, s4.elev3) ELSE s4
            IN IF s5.state = stateGoingUp
               THEN scheduleElevator(s5, "elev1", 15, "E7")
               ELSE scheduleElevator(s5, "elev1", 15, "E8")

executeGoUpAFloor(s) ==
    scheduleElevator([s EXCEPT !.step = stepGoUpAFloor, !.floor = s.floor + 1],
                     "elev1", 51, "E7b")

\* Faulty variant of E7: stops only for CALLCAR and CALLUP.
executeGoUpAFloor2CarOrUpOnly(s) ==
    IF s.callCar[s.floor] \/ s.callUp[s.floor]
    THEN scheduleElevator(s, "elev1", 14, "E2")
    ELSE scheduleElevatorImmediately(s, "elev1", "E7")

\* Faulty variant of E7: the car calls are not looked at.
executeGoUpAFloor2HallOnly(s) ==
    IF s.callUp[s.floor]
       \/ ((s.floor = 2 \/ s.callDown[s.floor]) /\ isAllCallsAboveFalse(s))
    THEN scheduleElevator(s, "elev1", 14, "E2")
    ELSE scheduleElevatorImmediately(s, "elev1", "E7")

executeGoUpAFloor2(s) ==
    IF s.callCar[s.floor] \/ s.callUp[s.floor]
       \/ ((s.floor = 2 \/ s.callDown[s.floor]) /\ isAllCallsAboveFalse(s))
    THEN scheduleElevator(s, "elev1", 14, "E2")
    ELSE scheduleElevatorImmediately(s, "elev1", "E7")

executeGoDownAFloor(s) ==
    scheduleElevator([s EXCEPT !.step = stepGoDownAFloor, !.floor = s.floor - 1],
                     "elev1", 61, "E8b")

\* Faulty variant of E8: decelerates in 14 units, as E7 does.
executeGoDownAFloor2AsUp(s) ==
    IF s.callCar[s.floor] \/ s.callDown[s.floor]
       \/ ((s.floor = 2 \/ s.callUp[s.floor]) /\ isAllCallsBelowFalse(s))
    THEN scheduleElevator(s, "elev1", 14, "E2")
    ELSE scheduleElevatorImmediately(s, "elev1", "E8")

executeGoDownAFloor2(s) ==
    IF s.callCar[s.floor] \/ s.callDown[s.floor]
       \/ ((s.floor = 2 \/ s.callUp[s.floor]) /\ isAllCallsBelowFalse(s))
    THEN scheduleElevator(s, "elev1", 23, "E2")
    ELSE scheduleElevatorImmediately(s, "elev1", "E8")

executeSetInactionIndicator(s) == decision([s EXCEPT !.d2 = FALSE])

(***************************************************************************)
(* Views of the lists: the nodes met from a head by following RLINK, up to *)
(* the head again (or up to a node already met, in a damaged list).        *)
(***************************************************************************)
RECURSIVE walk(_, _, _, _)
walk(rl, h, p, acc) ==
    IF p = h \/ p = nil \/ p \notin DOMAIN rl \/ (\E i \in 1..Len(acc) : acc[i] = p)
    THEN acc
    ELSE walk(rl, h, rl[p], Append(acc, p))

Chain(rl, h) == walk(rl, h, rl[h], <<>>)

Range(q) == {q[i] : i \in 1..Len(q)}

Wait == Chain(rlink, waitHead)
Queue(f) == Chain(rlink, queueHead(f))
Stack == Chain(rlink, stackHead)

\* The users in a list of user nodes.
Riders(q) == {info[n] : n \in Range(q)}

(***************************************************************************)
(* Nodes no pointer reaches are collected.                                 *)
(***************************************************************************)
Live(s) ==
    Heads
    \cup UNION {Range(Chain(s.rlink, h)) : h \in Heads}
    \cup ({s.elev1, s.elev2, s.elev3} \ {nil})
    \cup ({s.users[u].listNode : u \in DOMAIN s.users} \ {nil})
    \cup ({s.users[u].giveUp : u \in DOMAIN s.users} \ {nil})

(***************************************************************************)
(* History of a run, kept beside the program's state and never read by a   *)
(* handler.                                                                *)
(*   enq       the time at which U3 put each user into its floor queue     *)
(*   board     the users in the order in which U5 let them in              *)
(*   caught    the users whose U2 found the doors of their floor closing   *)
(*             (step E5, D1 false, E6 pending)                             *)
(*   openUp    by floor: the doors have been open at the floor (D1 or D3   *)
(*   openDown  true with the elevator there) since callUp / callDown of    *)
(*             the floor went from false to true                           *)
(*   log       the instructions executed while user 1 is the only user     *)
(*   woke      the users whose U2 found the elevator at E1 in NEUTRAL      *)
(*             state and whose floor is the home floor                     *)
(*   sig       the time of the last U2 or E9, the instructions that call   *)
(*             the DECISION subroutine while the elevator is at E1         *)
(*   opened    the time of the last E3                                     *)
(*   acts      the U5 and U6 executed since the doors last began to open   *)
(*             (E3) or to close (E5 with D1 false), with their times       *)
(*   idle      the users whose U2 found the doors of their floor open with *)
(*             D3 true                                                     *)
(*   quick     the time of the last U5 that ran in NEUTRAL state, or -1    *)
(*             when E5 has run since                                       *)
(*   trip      the last E6: its time, the floor, the state it left, and    *)
(*             the times of the E7 / E8 executed since                     *)
(***************************************************************************)
NoHistory ==
    [enq |-> <<>>, board |-> <<>>, caught |-> {}, woke |-> {}, sig |-> 0,
     opened |-> 0, acts |-> <<>>, idle |-> {}, quick |-> -1,
     openUp |-> [j \in 0..(floors - 1) |-> FALSE],
     openDown |-> [j \in 0..(floors - 1) |-> FALSE],
     log |-> <<>>,
     trip |-> [t |-> 0, from |-> floorHome, state |-> stateNeutral, moves |-> <<>>]]

DoorsClosing == step = stepCloseDoors /\ ~d1 /\ elev1 \in Range(Wait)
                    /\ info[elev1].op = "E6"

History(s, op, u) ==
    LET open(j) == s.floor = j /\ (s.d1 \/ s.d3) IN
    [enq |-> IF op = "U3"
             THEN [x \in DOMAIN hist.enq \cup {u} |->
                      IF x = u THEN s.time ELSE hist.enq[x]]
             ELSE hist.enq,
     board |-> IF op = "U5" THEN Append(hist.board, u) ELSE hist.board,
     caught |-> IF op = "U2" /\ floor = users[u].in /\ DoorsClosing
                THEN hist.caught \cup {u} ELSE hist.caught,
     woke |-> IF op = "U2" /\ users[u].in = floorHome
                    /\ step = stepWaitForCall /\ state = stateNeutral
              THEN hist.woke \cup {u} ELSE hist.woke,
     sig |-> IF op \in {"U2", "E9"} THEN s.time ELSE hist.sig,
     opened |-> IF op = "E3" THEN s.time ELSE hist.opened,
     quick |-> IF op = "U5" /\ state = stateNeutral THEN s.time
               ELSE IF op = "E5" THEN -1
               ELSE hist.quick,
     idle |-> IF op = "U2" /\ floor = users[u].in /\ step # stepCloseDoors /\ d3
              THEN hist.idle \cup {u} ELSE hist.idle,
     acts |-> IF op \in {"U5", "U6"}
              THEN Append(hist.acts, [op |-> op, u |-> u, t |-> s.time])
              ELSE IF op \in {"E3", "E6"} \/ (op = "E5" /\ ~d1) THEN <<>>
              ELSE hist.acts,
     openUp |-> [j \in 0..(floors - 1) |->
                    IF s.callUp[j] /\ ~callUp[j] THEN open(j)
                    ELSE hist.openUp[j] \/ open(j)],
     openDown |-> [j \in 0..(floors - 1) |->
                    IF s.callDown[j] /\ ~callDown[j] THEN open(j)
                    ELSE hist.openDown[j] \/ open(j)],
     log |-> IF s.userID = 1 THEN Append(hist.log, op) ELSE <<>>,
     trip |-> IF op = "E6"
              THEN [t |-> s.time, from |-> s.floor, state |-> s.state,
                    moves |-> <<>>]
              ELSE IF op \in {"E7", "E8"}
              THEN [hist.trip EXCEPT !.moves = Append(@, s.time)]
              ELSE hist.trip]

(***************************************************************************)
(* Construction: newSimulator, newElevator, newWaitQueue.                  *)
(***************************************************************************)
Init ==
    /\ pc = "start"
    /\ time = 0
    /\ userID = 0
    /\ callUp = [j \in 0..(floors - 1) |-> FALSE]
    /\ callDown = [j \in 0..(floors - 1) |-> FALSE]
    /\ callCar = [j \in 0..(floors - 1) |-> FALSE]
    /\ floor = floorHome
    /\ d1 = FALSE
    /\ d2 = FALSE
    /\ d3 = FALSE
    /\ state = stateNeutral
    /\ step = stepWaitForCall
    /\ elev1 = nil
    /\ elev2 = nil
    /\ elev3 = nil
    /\ llink = [h \in Heads |-> h]
    /\ rlink = [h \in Heads |-> h]
    /\ info = [h \in Heads |->
                  IF h = waitHead THEN newWaitElement(0, "nil", 0, FALSE) ELSE nil]
    /\ nextNode = firstNode
    /\ users = <<>>
    /\ left = {}
    /\ last = [op |-> "nil", u |-> 0]
    /\ hist = NoHistory

(***************************************************************************)
(* The state a handler leaves becomes the state of the simulator.          *)
(***************************************************************************)
Commit(s, op, u) ==
    LET L == Live(s) IN
    /\ pc' = "loop"
    /\ time' = s.time
    /\ userID' = s.userID
    /\ callUp' = s.callUp
    /\ callDown' = s.callDown
    /\ callCar' = s.callCar
    /\ floor' = s.floor
    /\ d1' = s.d1
    /\ d2' = s.d2
    /\ d3' = s.d3
    /\ state' = s.state
    /\ step' = s.step
    /\ elev1' = s.elev1
    /\ elev2' = s.elev2
    /\ elev3' = s.elev3
    /\ llink' = [x \in L |-> s.llink[x]]
    /\ rlink' = [x \in L |-> s.rlink[x]]
    /\ info' = [x \in L |-> s.info[x]]
    /\ nextNode' = s.nextNode
    /\ users' = s.users
    /\ left' = s.left
    /\ last' = [op |-> op, u |-> u]
    /\ hist' = History(s, op, u)

(***************************************************************************)
(* main.  The loop takes the first node of the WAIT list, deletes it, sets *)
(* the clock to its nextTime, stops at maxTime, and executes it.           *)
(***************************************************************************)
First == rlink[waitHead]

\* Faulty variant of the loop of main: no test of the clock against maxTime.
ReadyNoLimit(op) ==
    /\ pc = "loop"
    /\ First # waitHead
    /\ info[First].op = op

Ready(op) ==
    /\ pc = "loop"
    /\ First # waitHead
    /\ info[First].op = op
    /\ info[First].nextTime < maxTime

Popped == [delete(Cur, First) EXCEPT !.time = info[First].nextTime]

FirstUser == info[First].u

Arrival(s) ==
    \E in \in 0..(floors - 1), r \in 0..(floors - 2),
       g \in GiveUpTimes, i \in InterTimes :
        Commit(userEnterPrepareForSuccessor(s, in, r, g, i), "U1", s.userID + 1)

MainStart == pc = "start" /\ Arrival(Cur)

U1 == Ready("U1") /\ userID < MaxUsers /\ Arrival(Popped)
U2 == Ready("U2") /\ Commit(userSignalAndWait(Popped, FirstUser), "U2", FirstUser)
U3 == Ready("U3") /\ Commit(userEnterQueue(Popped, FirstUser), "U3", FirstUser)
U4 == Ready("U4") /\ Commit(userGiveUp(Popped, FirstUser), "U4", FirstUser)
U5 == Ready("U5") /\ Commit(userGetIn(Popped, FirstUser), "U5", FirstUser)
U6 == Ready("U6") /\ Commit(userGetOut(Popped, FirstUser), "U6", FirstUser)

E1 == Ready("E1") /\ Commit(executeWaitForCall(Popped), "E1", 0)
E2 == Ready("E2") /\ Commit(executeChangeOfState(Popped), "E2", 0)
E3 == Ready("E3") /\ Commit(executeOpenDoors(Popped), "E3", 0)
E4 == Ready("E4") /\ Commit(executeLetPeopleOutIn(Popped), "E4", 0)
E5 == Ready("E5") /\ Commit(executeCloseDoors(Popped), "E5", 0)
E6 == Ready("E6") /\ Commit(executePrepareToMove(Popped), "E6", 0)
E7 == Ready("E7") /\ Commit(executeGoUpAFloor(Popped), "E7", 0)
E7b == Ready("E7b") /\ Commit(executeGoUpAFloor2(Popped), "E7b", 0)
E8 == Ready("E8") /\ Commit(executeGoDownAFloor(Popped), "E8", 0)
E8b == Ready("E8b") /\ Commit(executeGoDownAFloor2(Popped), "E8b", 0)
E9 == Ready("E9") /\ Commit(executeSetInactionIndicator(Popped), "E9", 0)

Next ==
    \/ MainStart
    \/ U1 \/ U2 \/ U3 \/ U4 \/ U5 \/ U6
    \/ E1 \/ E2 \/ E3 \/ E4 \/ E5 \/ E6 \/ E7 \/ E7b \/ E8 \/ E8b \/ E9

Spec == Init /\ [][Next]_vars

(***************************************************************************)
(* Properties.                                                             *)
(***************************************************************************)
Floors == 0..(floors - 1)

\* The number of containers (floor queues and the stack) that hold user u.
Holders(u) ==
    Cardinality({f \in Floors : u \in Riders(Queue(f))})
    + (IF u \in Riders(Stack) THEN 1 ELSE 0)

\* C1: every rider is in at most one container, a rider in a floor queue is
\* in the queue of its origin floor, and a rider that gave up or got out is
\* in no container.
C1_OneContainer ==
    /\ \A u \in 1..userID : Holders(u) <= 1
    /\ \A u \in 1..userID : \A f \in Floors :
           u \in Riders(Queue(f)) => users[u].in = f
    /\ \A u \in left : Holders(u) = 0

\* U5 has just moved a rider from its floor queue to the stack, while
\* another rider stands in a floor queue.
C1_Witness ==
    /\ last.op = "U5"
    /\ last.u \in Riders(Stack)
    /\ \E u \in 1..userID : \E f \in Floors : u \in Riders(Queue(f))

Elev1Ops == {"E1", "E2", "E3", "E4", "E6", "E7", "E7b", "E8", "E8b"}

Pending(ops) == {n \in Range(Wait) : info[n].op \in ops}

\* C2: the WAIT list holds at most one element of the elevator's main
\* sequence, at most one E5 and at most one E9, and each of them is the
\* node its handle points to.
C2_OnePerHandle ==
    /\ Cardinality(Pending(Elev1Ops)) <= 1 /\ Pending(Elev1Ops) \subseteq {elev1}
    /\ Cardinality(Pending({"E5"})) <= 1 /\ Pending({"E5"}) \subseteq {elev2}
    /\ Cardinality(Pending({"E9"})) <= 1 /\ Pending({"E9"}) \subseteq {elev3}

\* U5 has just replaced the pending E5 of step E3 by one 25 units ahead,
\* while the main sequence and E9 are pending too.
C2_Witness ==
    /\ last.op = "U5"
    /\ Pending({"E5"}) = {elev2}
    /\ info[elev2].nextTime = time + 25
    /\ Pending(Elev1Ops) = {elev1}
    /\ Pending({"E9"}) = {elev3}

\* The elements of the WAIT list, front first.
Agenda == [i \in 1..Len(Wait) |-> info[Wait[i]]]

\* Nodes are numbered in allocation order, so a smaller number means an
\* earlier insertion.
\* C3 as stated: for A before B, A is due no later than B, and when both
\* are due at the same time A was inserted before B unless B was inserted
\* by IMMED.
C3_SortedUnlessBImmediate ==
    \A i \in 1..Len(Wait) : \A j \in (i + 1)..Len(Wait) :
        /\ Agenda[i].nextTime <= Agenda[j].nextTime
        /\ Agenda[i].nextTime = Agenda[j].nextTime
               => (Wait[i] < Wait[j] \/ Agenda[j].imm)

\* C3 amended: for A before B, A is due no later than B, and when both are
\* due at the same time A was inserted before B unless A was inserted by
\* IMMED.
C3_SortedUnlessAImmediate ==
    \A i \in 1..Len(Wait) : \A j \in (i + 1)..Len(Wait) :
        /\ Agenda[i].nextTime <= Agenda[j].nextTime
        /\ Agenda[i].nextTime = Agenda[j].nextTime
               => (Wait[i] < Wait[j] \/ Agenda[i].imm)

\* An element put in by IMMED stands in front of an element that SORTIN
\* put in earlier and that is due at the same time.
C3_Witness ==
    \E i, j \in 1..Len(Wait) :
        /\ i < j
        /\ Agenda[i].nextTime = Agenda[j].nextTime
        /\ Agenda[i].imm /\ ~Agenda[j].imm
        /\ Wait[j] < Wait[i]

\* C4: the clock never goes back, and every pending element is due at the
\* clock value or later.
C4_ClockMonotonic ==
    [][/\ time' >= time
       /\ \A n \in Range(Wait') : info'[n].nextTime >= time']_vars

\* The clock has advanced and an element due at the clock value is pending.
C4_Witness ==
    /\ time > 0
    /\ \E n \in Range(Wait) : info[n].nextTime = time /\ ~info[n].imm

\* C5: when main is about to take the next element, the WAIT list is not
\* empty: it holds the arrival of the next user.
C5_AgendaNonEmpty ==
    pc = "loop" => /\ First # waitHead
                   /\ Cardinality(Pending({"U1"})) = 1

\* Everything else has fired or was cancelled: only the next arrival is left.
C5_Witness ==
    /\ pc = "loop"
    /\ Len(Wait) = 1
    /\ time > 0

\* C6: the elements an action puts in by IMMED stand in front of every
\* element that was pending before and of every element put in by SORTIN, in
\* reverse order of their insertion, so that the last one put in is the first
\* of the WAIT list, which main executes next; and the elements put in by
\* IMMED that are still pending always form the front of the list.
C6_ImmediateFirst ==
    [][LET W == Wait'
           A == [i \in 1..Len(W) |-> info'[W[i]]]
           new == {i \in 1..Len(W) : W[i] >= nextNode /\ A[i].imm}
       IN /\ \A i \in new : \A j \in 1..Len(W) :
                 (W[j] < nextNode \/ ~A[j].imm) => i < j
          /\ \A i \in new : \A j \in new : i < j => W[i] > W[j]
          /\ new # {} => 1 \in new
          /\ \A i \in 1..Len(W) : \A j \in (i + 1)..Len(W) : A[j].imm => A[i].imm
          /\ \A i \in 1..Len(W) : A[i].imm => A[i].nextTime = time']_vars

\* The first element was put in by IMMED, in front of an older element that
\* is due at the present clock value.
C6_Witness ==
    /\ Len(Wait) >= 2
    /\ Agenda[1].imm
    /\ \E j \in 2..Len(Wait) :
           /\ ~Agenda[j].imm
           /\ Agenda[j].nextTime = time
           /\ Wait[j] < Wait[1]

\* The pointers through which elements of the WAIT list are cancelled.
Handles ==
    {nil, elev1, elev2, elev3} \cup {users[u].giveUp : u \in DOMAIN users}

Stale(s, h) == h = nil \/ h \notin Range(Chain(s.rlink, waitHead))

CancelIsNoOp(s) ==
    /\ \A h \in Handles :
           Stale(s, h) => /\ delete(s, h).llink = s.llink
                          /\ delete(s, h).rlink = s.rlink
    /\ \A h \in Handles : delete(delete(s, h), h) = delete(s, h)

\* C7: deleting through a handle whose element has fired or was cancelled,
\* or through a nil handle, changes no link of any list, and deleting twice
\* is deleting once; between two actions and right after main has taken the
\* first element off the list.
C7_StaleCancelNoOp ==
    /\ CancelIsNoOp(Cur)
    /\ (pc = "loop" /\ First # waitHead) => CancelIsNoOp(Popped)

\* elev1 and elev3 point to elements that fired or were cancelled, a give-up
\* handle is stale too, and other elements are pending.
C7_Witness ==
    /\ elev1 # nil /\ Stale(Cur, elev1)
    /\ elev3 # nil /\ Stale(Cur, elev3)
    /\ \E u \in DOMAIN users : users[u].giveUp # nil /\ Stale(Cur, users[u].giveUp)
    /\ Len(Wait) >= 2

\* C8: the elevator's floor is one of 0..4.
C8_FloorInRange == floor \in 0..(floors - 1)

\* Going up, the elevator has reached floor 4 and decides to stop there.
C8_Witness ==
    /\ last.op = "E7b"
    /\ floor = floors - 1
    /\ info[elev1].op = "E2"

OpensNow == First # waitHead /\ info[First].op = "E3"
                /\ info[First].nextTime = time

\* C11: whenever callUp[f] or callDown[f] goes from asserted to cleared, the
\* elevator is at floor f, and its doors have been open at floor f at some
\* instant since the register went from cleared to asserted, or begin to
\* open (E3) at the instant of the clearing.
C11_HallCallServed ==
    [][\A f \in Floors :
          /\ (callUp[f] /\ ~callUp'[f]) =>
                 floor' = f /\ (hist'.openUp[f] \/ OpensNow')
          /\ (callDown[f] /\ ~callDown'[f]) =>
                 floor' = f /\ (hist'.openDown[f] \/ OpensNow')]_vars

\* The riders in the car whose destination is floor d.
RidersTo(d) == {u \in Riders(Stack) : users[u].out = d}

\* C12 as stated: callCar[d] goes from asserted to cleared only by E6
\* executed at floor d, after every rider for floor d has got out.
C12_CarCallClearedByE6 ==
    [][\A d \in Floors :
          (callCar[d] /\ ~callCar'[d]) =>
              last'.op = "E6" /\ floor' = d /\ RidersTo(d)' = {}]_vars

\* The register of every rider in the car is asserted until the car is at
\* the rider's destination.
CarCallKept == \A u \in Riders(Stack) : callCar[users[u].out] \/ floor = users[u].out

\* C12: callCar[d] is asserted only by a rider for floor d getting in (U5),
\* stays asserted while such a rider is in the car and the car is not at
\* floor d, and goes from asserted to cleared only at floor d: either by E2
\* on arrival, with E3 due at once and before the rider gets out, or by E6
\* after every rider for floor d has got out.
C12_CarCallClearedAtDestination ==
    [][/\ CarCallKept'
       /\ \A d \in Floors :
             /\ (~callCar[d] /\ callCar'[d]) =>
                    last'.op = "U5" /\ users'[last'.u].out = d
             /\ (callCar[d] /\ ~callCar'[d]) =>
                    /\ floor' = d
                    /\ \/ last'.op = "E2" /\ OpensNow'
                       \/ last'.op = "E6" /\ RidersTo(d)' = {}]_vars

\* E2 has just cleared the car call of a rider who is still in the car.
C12_Witness ==
    /\ last.op = "E2"
    /\ ~callCar[floor]
    /\ RidersTo(floor) # {}

\* User u stands in the queue of its floor.
InQueue(u) == u \in Riders(Queue(users[u].in))

\* The U4 of user u is in the WAIT list.
TimerPending(u) == users[u].giveUp \in Range(Wait)

\* The instant at which the patience of user u runs out.
Deadline(u) == hist.enq[u] + users[u].giveUpTime

\* A user waiting in its queue has its U4 in the WAIT list, due at the
\* deadline, or the deadline has passed; no U5 is due for a user that left.
GiveUpDue ==
    /\ \A u \in DOMAIN hist.enq :
          /\ TimerPending(u) =>
                 /\ info[users[u].giveUp].op = "U4"
                 /\ info[users[u].giveUp].u = u
                 /\ info[users[u].giveUp].nextTime = Deadline(u)
                 /\ InQueue(u)
          /\ (InQueue(u) /\ ~TimerPending(u)) => time >= Deadline(u)
    /\ \A n \in Range(Wait) : info[n].op = "U5" => info[n].u \notin left

\* C13: a rider enqueued at time a with patience p that has not got in by
\* a + p is handled by U4 at exactly a + p; if the elevator is then not at
\* the rider's floor or D1 is false, the rider is removed from the queue of
\* its floor at that instant, and it never gets in afterwards: E4 never
\* selects it and U5 never runs for it.
C13_GiveUpAtDeadline ==
    [][/\ GiveUpDue'
       /\ (info[First].op = "U4" /\ last'.op = "U4") =>
             \A u \in {FirstUser} :
             /\ last'.u = u
             /\ InQueue(u)
             /\ time' = Deadline(u)
             /\ (floor # users[u].in \/ ~d1) =>
                    (~InQueue(u))' /\ u \in left' /\ u \notin left
       /\ last'.op = "U5" => last'.u \notin left
       /\ left \subseteq left']_vars

\* A rider has just given up, at the instant its patience ran out.
C13_Witness ==
    /\ last.op = "U4"
    /\ last.u \in left
    /\ time = Deadline(last.u)
    /\ ~InQueue(last.u)

\* The U4 of user u found the elevator at its floor with D1 true: the user
\* is still in its queue and no U4 is left for it.
Stayed(u) == u \in DOMAIN hist.enq /\ InQueue(u) /\ ~TimerPending(u)

\* C14: when U4 runs for a rider while the elevator is at the rider's floor
\* and D1 is true, the rider stays in its queue with no U4 left; from then
\* on, as long as the rider is in the queue, the elevator is at that floor,
\* D1 is true and E3 or E4 is due, and the rider leaves the queue only by
\* getting in (U5) at that floor.
C14_StaysThenGetsIn ==
    [][/\ (info[First].op = "U4" /\ last'.op = "U4") =>
             \A u \in {FirstUser} :
                 (floor = users[u].in /\ d1) =>
                     Stayed(u)' /\ u \notin left'
       /\ \A u \in DOMAIN users :
             /\ Stayed(u)' =>
                    /\ floor' = users[u].in
                    /\ d1'
                    /\ Pending({"E3", "E4"})' # {}
             /\ (Stayed(u) /\ ~Stayed(u)') =>
                    /\ last' = [op |-> "U5", u |-> u]
                    /\ floor' = users[u].in
                    /\ d1'
                    /\ u \in Riders(Stack)']_vars

\* A rider gets in after its patience ran out: its U4 left it in the queue.
C14_Witness ==
    /\ last.op = "U5"
    /\ time > Deadline(last.u)
    /\ last.u \in Riders(Stack)

\* E4 is due through elev1 at time t.
LetInDueAt(t) == elev1 \in Range(Wait) /\ info[elev1].op = "E4"
                    /\ info[elev1].nextTime = t

\* A user whose U2 found the doors of its floor closing, while it waits in
\* its queue: the elevator is at the floor, no E6 is due, and E3 is due at
\* once, or E4 is due 20 units after the arrival, or that E4 has run and the
\* user's U5 is next.
CaughtWaits(u) ==
    /\ floor = users[u].in
    /\ Pending({"E6"}) = {}
    /\ time <= hist.enq[u] + 20
    /\ \/ OpensNow /\ time = hist.enq[u]
       \/ LetInDueAt(hist.enq[u] + 20) /\ step = stepOpenDoors /\ d1
       \/ /\ First # waitHead
          /\ info[First] = newWaitElement(hist.enq[u] + 20, "U5", u, TRUE)
          /\ time = hist.enq[u] + 20

\* C15: when U2 runs for a rider at the elevator's floor while step is E5,
\* D1 is false and E6 is due, the E6 is cancelled and U3 and then E3 are
\* the next instructions, both at the instant of the arrival; E6 runs only
\* from the state E5 leaves when it closes the doors (or from E1); and the
\* rider gets in at the E4 that runs 20 units after the arrival.
C15_ReopenOnArrival ==
    [][/\ (info[First].op = "U2" /\ last'.op = "U2"
              /\ floor = users[FirstUser].in /\ DoorsClosing) =>
             \A u \in {FirstUser} :
                 /\ Pending({"E6"})' = {}
                 /\ Len(Agenda') >= 2
                 /\ Agenda'[1] = newWaitElement(time', "U3", u, TRUE)
                 /\ Agenda'[2] = newWaitElement(time', "E3", 0, TRUE)
                 /\ time' = time
       /\ (info[First].op = "E6" /\ last'.op = "E6") =>
             \/ step = stepCloseDoors /\ ~d1 /\ ~d3
             \/ step = stepWaitForCall
       /\ \A u \in hist'.caught \cap DOMAIN hist'.enq :
             /\ InQueue(u)' => CaughtWaits(u)'
             /\ (u \in DOMAIN hist.enq /\ InQueue(u) /\ ~InQueue(u)') =>
                    /\ last' = [op |-> "U5", u |-> u]
                    /\ time' = hist.enq[u] + 20]_vars

\* A rider that arrived at closing doors has just got in, 20 units after
\* its arrival.
C15_Witness ==
    /\ last.op = "U5"
    /\ last.u \in hist.caught
    /\ time = hist.enq[last.u] + 20
    /\ last.u \in Riders(Stack)

\* n times E7 and the arrival at the floor that follows it after 51 units.
Ascent(n) == [i \in 1..(2 * n) |-> IF i % 2 = 1 THEN "E7" ELSE "E7b"]

\* The instructions main executes for a single user going from the home
\* floor to a floor n floors above: the arrival, the doors opening at the
\* home floor, the user getting in, the doors closing, the ascent, the stop,
\* the user getting out and the doors closing.
SingleRiderUp(n) ==
    <<"U1", "U2", "U3", "E3", "E4", "U5", "E4", "E5", "E6">>
    \o Ascent(n)
    \o <<"E2", "E3", "E4", "U6", "E4", "E5">>

\* The way back from floor 4 to the home floor and to E1, and the E9 that
\* follows 300 units after the last opening of the doors.
ReturnHome ==
    <<"E6", "E8", "E8b", "E8", "E8b", "E2", "E3", "E4", "E5", "E6", "E1", "E9">>

\* One of two sequences is the beginning of the other.
Compatible(a, b) ==
    \A i \in 1..(IF Len(a) < Len(b) THEN Len(a) ELSE Len(b)) : a[i] = b[i]

\* User 1 goes from the home floor to floor 4 and no other user has arrived.
SingleRider == userID = 1 /\ users[1].in = floorHome /\ users[1].out = 4

\* C16 as stated: for a single rider from the home floor to floor 4 the
\* instructions executed are U2, U3, E3, U5, E5, three times E7, then E2,
\* E3, U6, E5.
C16_AscendsThreeFloors ==
    SingleRider => Compatible(hist.log, SingleRiderUp(3))

\* C16: for a single rider from the home floor to floor 4 the instructions
\* executed are U2, U3, E3 (no travel), U5, E5, two times E7 (floors 3 and
\* 4), then E2, E3, U6, E5, and the return to floor 2 and to E1; E7 runs
\* exactly as many times as there are floors between 2 and 4.
C16_AscendsTwoFloors ==
    SingleRider =>
        /\ Compatible(hist.log, SingleRiderUp(4 - floorHome) \o ReturnHome)
        /\ Len(hist.log) <= Len(SingleRiderUp(4 - floorHome) \o ReturnHome)
        /\ Len(hist.log) = 9 + 2 * (4 - floorHome) + 1 => floor = 4
        /\ Len(hist.log) >= Len(SingleRiderUp(4 - floorHome) \o ReturnHome) - 1 =>
               /\ floor = floorHome
               /\ state = stateNeutral
               /\ step = stepWaitForCall

\* The single rider is out at floor 4 and the elevator is back at E1 at the
\* home floor.
C16_Witness ==
    /\ SingleRider
    /\ hist.log = SingleRiderUp(2) \o ReturnHome
    /\ 1 \in left

\* The rank of user u in the order in which the users got in.
Boarded(u) == CHOOSE i \in 1..Len(hist.board) : hist.board[i] = u

\* C17: the rider that gets in (U5) is the one that entered the queue of the
\* elevator's floor first among the riders waiting there, and the rider
\* that gets out (U6) is the one that got in last among the riders in the
\* car whose destination is the elevator's floor.
C17_FirstInLastOut ==
    [][/\ (info[First].op = "U5" /\ last'.op = "U5") =>
             \A u \in {FirstUser} :
                 /\ InQueue(u)
                 /\ users[u].in = floor
                 /\ info[Queue(floor)[1]] = u
                 /\ \A v \in Riders(Queue(floor)) \ {u} :
                        hist.enq[u] < hist.enq[v]
       /\ (info[First].op = "U6" /\ last'.op = "U6") =>
             \A u \in {FirstUser} :
                 /\ u \in RidersTo(floor)
                 /\ \A v \in RidersTo(floor) \ {u} : Boarded(v) < Boarded(u)]_vars

\* Users 1 and 2 waited at the same floor for the same destination: user 1
\* entered the queue first and got in first, and user 2 has just got out
\* while user 1 is still in the car.
C17_Witness ==
    /\ last = [op |-> "U6", u |-> 2]
    /\ hist.board = <<1, 2>>
    /\ users[1].in = users[2].in
    /\ hist.enq[1] < hist.enq[2]
    /\ 1 \in RidersTo(floor)

\* The values rand.Int31n(floors - 1) gives for the destination.
Draws == 0..(floors - 2)

\* C18: for every origin floor and every draw r of U1 the destination is a
\* floor other than the origin, every floor other than the origin is the
\* destination for exactly one draw, and every user made by U1 has a
\* destination in 0..4 that differs from its origin.
C18_DestinationOtherFloor ==
    /\ \A in \in Floors : \A r \in Draws :
           destination(in, r) \in Floors \ {in}
    /\ \A in \in Floors : \A f \in Floors \ {in} :
           Cardinality({r \in Draws : destination(in, r) = f}) = 1
    /\ \A u \in DOMAIN users :
           /\ users[u].out \in Floors \ {users[u].in}
           /\ \E r \in Draws : users[u].out = destination(users[u].in, r)

\* U1 has made a user whose draw was equal to its origin (destination one
\* floor up) and a user whose draw was below its origin.
C18_Witness ==
    /\ userID = 2
    /\ users[1].out = users[1].in + 1
    /\ users[2].out < users[2].in

(***************************************************************************)
(* The end of a run.  main stops when the element it takes from the WAIT   *)
(* list is due at maxTime or later.  The clock of Spec stays far from      *)
(* maxTime, so the end is explored in runs that begin with LateUsers users *)
(* of fixed draws: each goes from floor 2 to floor 4 and arrives after the *)
(* elevator is back at E1, and the arrival after them is due               *)
(* maxInterTime - 1 units before maxTime.  The users after them draw from  *)
(* the sets of the model.                                                  *)
(***************************************************************************)
LateUsers == maxTime \div maxInterTime

LateArrival == maxTime - (maxInterTime - 1)

\* The interarrival times of the first LateUsers users: 830 units, and 801
\* units for the last of them.
LateInterTime(id) ==
    IF id < LateUsers THEN maxInterTime - 70
    ELSE LateArrival - (LateUsers - 1) * (maxInterTime - 70)

\* U1 in these runs.  The last user the model admits draws an interarrival
\* time that puts the next arrival at maxTime or later.
ArrivalLate(s) ==
    IF s.userID < LateUsers
    THEN Commit(userEnterPrepareForSuccessor(s, floorHome, floors - 2, minGiveUpTime,
                                             LateInterTime(s.userID + 1)),
                "U1", s.userID + 1)
    ELSE \E in \in 0..(floors - 1), r \in 0..(floors - 2),
            g \in GiveUpTimes, i \in InterTimes :
             /\ s.userID + 1 < LateUsers + MaxUsers \/ s.time + i >= maxTime
             /\ Commit(userEnterPrepareForSuccessor(s, in, r, g, i), "U1", s.userID + 1)

MainStartLate == pc = "start" /\ ArrivalLate(Cur)

U1Late == Ready("U1") /\ userID < LateUsers + MaxUsers /\ ArrivalLate(Popped)

\* main leaves the loop: the element taken from the WAIT list is due at
\* maxTime or later.
Stop ==
    /\ pc = "loop"
    /\ First # waitHead
    /\ info[First].nextTime >= maxTime
    /\ pc' = "done"
    /\ time' = Popped.time
    /\ llink' = [x \in Live(Popped) |-> Popped.llink[x]]
    /\ rlink' = [x \in Live(Popped) |-> Popped.rlink[x]]
    /\ info' = [x \in Live(Popped) |-> Popped.info[x]]
    /\ last' = [op |-> "stop", u |-> 0]
    /\ UNCHANGED <<userID, callUp, callDown, callCar, floor, d1, d2, d3, state,
                   step, elev1, elev2, elev3, nextNode, users, left, hist>>

NextLate ==
    \/ MainStartLate
    \/ U1Late \/ U2 \/ U3 \/ U4 \/ U5 \/ U6
    \/ E1 \/ E2 \/ E3 \/ E4 \/ E5 \/ E6 \/ E7 \/ E7b \/ E8 \/ E8b \/ E9
    \/ Stop

\* A step of main, as far as pc, the clock and the instruction executed last
\* show it: the first call of U1, or a pass of the loop, in which the first
\* element of the WAIT list is taken and the clock is set to its time.
\* Every step of NextLate is such a step.
MainRuns ==
    \/ /\ pc = "start"
       /\ pc' = "loop"
       /\ time' = time
       /\ last' = [op |-> "U1", u |-> 1]
    \/ /\ pc = "loop"
       /\ First # waitHead
       /\ pc' = IF info[First].nextTime >= maxTime THEN "done" ELSE "loop"
       /\ time' = info[First].nextTime
       /\ \E x \in 0..(LateUsers + MaxUsers) :
              last' = [op |-> IF info[First].nextTime >= maxTime
                              THEN "stop" ELSE info[First].op,
                       u |-> x]

\* main never pauses: it makes its first call, and while the WAIT list has a
\* first element it makes a pass of the loop.
SpecLate ==
    Init /\ [][NextLate]_vars /\ WF_<<pc, time, last>>(MainRuns)

\* main can make a pass of its loop: the WAIT list is not empty and the
\* model admits the arrival that is due.
CanRun ==
    /\ First # waitHead
    /\ (info[First].op = "U1" /\ info[First].nextTime < maxTime) =>
           userID < LateUsers + MaxUsers

\* C19: every run ends: main leaves its loop, with the clock at maxTime or
\* later, and before that no instruction due at maxTime or later has been
\* executed; in particular no run executes instructions at one instant
\* for ever.
C19_StopsAtMaxTime ==
    /\ <>(pc = "done")
    /\ [](pc = "loop" => time < maxTime /\ CanRun)
    /\ [](pc = "done" => time >= maxTime)

\* main has left the loop after two more arrivals.
C19_Witness ==
    /\ pc = "done"
    /\ time >= maxTime
    /\ userID = LateUsers + 2

\* The elevator is dormant: at E1 at the home floor, NEUTRAL, the doors
\* closed, no call register asserted, nobody in the car and nobody waiting.
Dormant ==
    /\ step = stepWaitForCall
    /\ floor = floorHome
    /\ state = stateNeutral
    /\ ~d1 /\ ~d3
    /\ \A j \in Floors : ~callUp[j] /\ ~callDown[j] /\ ~callCar[j]
    /\ Stack = <<>>
    /\ \A j \in Floors : Queue(j) = <<>>

\* No rider arrives any more: the last user has entered its queue and every
\* U1 in the WAIT list is due at maxTime or later.
Quiet ==
    /\ pc = "loop"
    /\ userID > LateUsers
    /\ Pending({"U2", "U3"}) = {}
    /\ \A n \in Range(Wait) : info[n].op = "U1" => info[n].nextTime >= maxTime

\* E6 is about to run in a NEUTRAL car away from the home floor, with no
\* call at another floor.
IdleAway ==
    /\ info[First].op = "E6"
    /\ state = stateNeutral
    /\ floor # floorHome
    /\ \A j \in Floors \ {floor} : ~callUp[j] /\ ~callDown[j] /\ ~callCar[j]

\* C20: once no rider arrives any more, the elevator eventually is dormant
\* (E1 at the home floor, NEUTRAL, doors closed, no register asserted, car
\* and queues empty), unless main stops first, and then it stays dormant;
\* the elevator is dormant whenever it comes to E1; a run whose last rider
\* arrives maxInterTime - 1 units before maxTime ends dormant; and E6 in a
\* NEUTRAL car away from the home floor with no call elsewhere leaves the
\* doors closed and sets off toward floor 2.
C20_EventuallyDormant ==
    /\ [](Quiet => <>(Dormant \/ pc = "done"))
    /\ [](last.op = "E1" => Dormant)
    /\ []((pc = "done" /\ userID = LateUsers + 1) => Dormant)
    /\ [][/\ (Quiet /\ Dormant) => Dormant'
          /\ (IdleAway /\ last'.op = "E6") =>
                 /\ state' = IF floor > floorHome THEN stateGoingDown
                                                 ELSE stateGoingUp
                 /\ ~d1' /\ ~d3'
                 /\ elev1' \in Range(Wait')
                 /\ info'[elev1'] =
                        newWaitElement(time' + 15,
                                       IF floor > floorHome THEN "E8" ELSE "E7",
                                       0, FALSE)]_vars

\* The last two riders have left, the elevator is dormant, E9 has run, and
\* main has not stopped yet.
C20_Witness ==
    /\ Quiet
    /\ Dormant
    /\ last.op = "E9"
    /\ userID = LateUsers + 2
    /\ {userID - 1, userID} \subseteq left

\* No call register is asserted at any floor.
NoCalls == \A j \in Floors : ~callUp[j] /\ ~callDown[j] /\ ~callCar[j]

\* C21: whenever step is E1 the elevator is at the home floor with D1 and D3
\* false, and E1 is executed only in NEUTRAL state with no call register
\* asserted at any floor, and leaves it so.
C21_DormantAtHome ==
    /\ [](step = stepWaitForCall => floor = floorHome /\ ~d1 /\ ~d3)
    /\ [][(info[First].op = "E1" /\ last'.op = "E1") =>
              /\ state = stateNeutral /\ NoCalls
              /\ step = stepPrepareToMove /\ step' = stepWaitForCall
              /\ state' = stateNeutral /\ NoCalls']_vars

\* The elevator has come back to E1 after a ride.
C21_Witness ==
    /\ last.op = "E1"
    /\ step = stepWaitForCall
    /\ left # {}
    /\ time > 0

\* C22: whenever D3 is true, step is E4, D1 is false, the queue of the
\* elevator's floor is empty and no rider in the car has the elevator's
\* floor as destination.
C22_DoorsIdleOpen ==
    d3 => /\ step = stepLetPeopleOutIn
          /\ ~d1
          /\ Queue(floor) = <<>>
          /\ RidersTo(floor) = {}

\* E4 has just set D3 with a rider in the car and a user waiting at another
\* floor.
C22_Witness ==
    /\ d3
    /\ last.op = "E4"
    /\ Stack # <<>>
    /\ \E f \in Floors \ {floor} : Queue(f) # <<>>

(***************************************************************************)
(* The DECISION subroutine by itself.  What it reads is FLOOR, STATE, the  *)
(* step of the elevator and the fifteen call registers; the runs below     *)
(* begin with every valuation of the registers and every floor, in NEUTRAL *)
(* state, with the elevator at E1 (at the home floor), at E4 or at E6, and *)
(* make one call of the subroutine.  The lists are as after construction.  *)
(***************************************************************************)
DecisionSteps == {stepWaitForCall, stepLetPeopleOutIn, stepPrepareToMove}

InitDecision ==
    /\ pc = "decision"
    /\ time = 0
    /\ userID = 0
    /\ callUp \in [Floors -> BOOLEAN]
    /\ callDown \in [Floors -> BOOLEAN]
    /\ callCar \in [Floors -> BOOLEAN]
    /\ floor \in Floors
    /\ d1 = FALSE
    /\ d2 = FALSE
    /\ d3 = FALSE
    /\ state = stateNeutral
    /\ step \in DecisionSteps
    /\ step = stepWaitForCall => floor = floorHome
    /\ elev1 = nil
    /\ elev2 = nil
    /\ elev3 = nil
    /\ llink = [h \in Heads |-> h]
    /\ rlink = [h \in Heads |-> h]
    /\ info = [h \in Heads |->
                  IF h = waitHead THEN newWaitElement(0, "nil", 0, FALSE) ELSE nil]
    /\ nextNode = firstNode
    /\ users = <<>>
    /\ left = {}
    /\ last = [op |-> "nil", u |-> 0]
    /\ hist = NoHistory

Decide == pc = "decision" /\ Commit(decision(Cur), "D", 0)

NextDecision == Decide

SpecDecision == InitDecision /\ [][NextDecision]_vars

\* The floors other than the elevator's with a register asserted.
CallsElsewhere ==
    {j \in Floors \ {floor} : callUp[j] \/ callDown[j] \/ callCar[j]}

\* The elevator is at E1 and a register of the home floor is asserted.
HomeCallAtE1 ==
    /\ step = stepWaitForCall
    /\ callUp[floorHome] \/ callDown[floorHome] \/ callCar[floorHome]

\* The floor the subroutine is to aim at, or floors if there is none.
Target ==
    IF CallsElsewhere # {}
    THEN CHOOSE j \in CallsElsewhere : \A k \in CallsElsewhere : j <= k
    ELSE IF step = stepPrepareToMove THEN floorHome
    ELSE floors

\* C23: called in NEUTRAL state, and not at E1 with a call at the home
\* floor, the DECISION subroutine aims at the smallest floor other than the
\* elevator's with a register asserted, or at the home floor when there is
\* none and the step is E6; it sets the state to GOINGDOWN if FLOOR is above
\* that floor, to GOINGUP if FLOOR is below it, and leaves it NEUTRAL if
\* FLOOR is that floor or there is no such floor.
C23_DecisionTarget ==
    [][(pc = "decision" /\ state = stateNeutral /\ ~HomeCallAtE1) =>
           state' = IF Target = floors \/ Target = floor THEN stateNeutral
                    ELSE IF floor > Target THEN stateGoingDown
                    ELSE stateGoingUp]_vars

\* The subroutine has run with calls both below and above the elevator and
\* has set the state to GOINGDOWN.
C23_Witness ==
    /\ last.op = "D"
    /\ state = stateGoingDown
    /\ \E j \in CallsElsewhere : j < floor
    /\ \E j \in CallsElsewhere : j > floor
    /\ ~HomeCallAtE1

(***************************************************************************)
(* The calls of the DECISION subroutine in a run: the state with which     *)
(* each of U2, E6 and E9 calls it, as a set that is empty when the handler *)
(* does not call it.                                                       *)
(***************************************************************************)
userSignalAndWaitDecides(s, u) ==
    LET in == s.users[u].in
        out == s.users[u].out
    IN IF s.floor = in /\ s.step = stepCloseDoors THEN {}
       ELSE IF s.floor = in /\ s.d3 THEN {}
       ELSE LET s2 == IF out > in
                      THEN [s EXCEPT !.callUp[in] = TRUE]
                      ELSE [s EXCEPT !.callDown[in] = TRUE]
            IN IF ~s2.d2 \/ s2.step = stepWaitForCall THEN {s2} ELSE {}

executePrepareToMoveDecides(s) ==
    LET s1 == [s EXCEPT !.step = stepPrepareToMove, !.callCar[s.floor] = FALSE]
        s2 == IF s1.state # stateGoingDown
              THEN [s1 EXCEPT !.callUp[s1.floor] = FALSE] ELSE s1
        s3 == IF s2.state # stateGoingUp
              THEN [s2 EXCEPT !.callDown[s2.floor] = FALSE] ELSE s2
    IN {s3}

executeSetInactionIndicatorDecides(s) == {[s EXCEPT !.d2 = FALSE]}

\* The call of the subroutine in the step main is about to make.
DecisionCalls ==
    IF pc # "loop" \/ First = waitHead THEN {}
    ELSE IF info[First].op = "U2" THEN userSignalAndWaitDecides(Popped, FirstUser)
    ELSE IF info[First].op = "E6" THEN executePrepareToMoveDecides(Popped)
    ELSE IF info[First].op = "E9" THEN executeSetInactionIndicatorDecides(Popped)
    ELSE {}

\* C24: the DECISION subroutine is called in NEUTRAL state with step E6 only
\* by E6, and E6 always calls it with step E6; between two instructions the
\* step is E6 in NEUTRAL state only when E6 has just run and E1 is the
\* instruction main executes next, so that no U2 and no E9 finds it.
C24_FallbackOnlyFromE6 ==
    /\ \A s \in DecisionCalls :
           /\ (s.state = stateNeutral /\ s.step = stepPrepareToMove) =>
                  info[First].op = "E6"
           /\ info[First].op = "E6" => s.step = stepPrepareToMove
    /\ (step = stepPrepareToMove /\ state = stateNeutral) =>
           /\ last.op = "E6"
           /\ pc = "loop"
           /\ First # waitHead
           /\ info[First].op = "E1"
           /\ info[First].nextTime = time

\* E9 is about to call the subroutine in NEUTRAL state with no register
\* asserted, after a user has left: had the step still been E6, the
\* subroutine would aim at the home floor.
C24_Witness ==
    /\ pc = "loop" /\ First # waitHead
    /\ info[First].op = "E9"
    /\ \E s \in DecisionCalls :
           /\ s.state = stateNeutral
           /\ decisionScan(s) = floors
           /\ ~anyCall(s, floorHome)
           /\ s.step # stepPrepareToMove
    /\ left # {}

\* The nodes of the list with head h in state s.
ListOf(s, h) == Chain(s.rlink, h)

\* What the subroutine leaves alone whatever its input: the flags, the
\* registers, the floor, the step, the clock, the users, the queues, the
\* stack, the handles of E5 and E9, and every element of the WAIT list but
\* the one elev1 points to.
DecisionKeeps(s, r) ==
    /\ r.d1 = s.d1 /\ r.d2 = s.d2 /\ r.d3 = s.d3
    /\ r.callUp = s.callUp /\ r.callDown = s.callDown /\ r.callCar = s.callCar
    /\ r.floor = s.floor /\ r.step = s.step /\ r.time = s.time
    /\ r.userID = s.userID /\ r.users = s.users /\ r.left = s.left
    /\ r.elev2 = s.elev2 /\ r.elev3 = s.elev3
    /\ \A f \in Floors : ListOf(r, queueHead(f)) = ListOf(s, queueHead(f))
    /\ ListOf(r, stackHead) = ListOf(s, stackHead)
    /\ Range(ListOf(s, waitHead)) \ {s.elev1} \subseteq Range(ListOf(r, waitHead))
    /\ Range(ListOf(r, waitHead)) \ {r.elev1} \subseteq Range(ListOf(s, waitHead))
    /\ \A n \in DOMAIN s.info : r.info[n] = s.info[n]

\* The subroutine leaves the WAIT list and elev1 alone.
DecisionKeepsAgenda(s, r) ==
    /\ r.llink = s.llink /\ r.rlink = s.rlink /\ r.info = s.info
    /\ r.nextNode = s.nextNode /\ r.elev1 = s.elev1

\* C25: the DECISION subroutine changes nothing but STATE, elev1 and the
\* element of the WAIT list elev1 points to: it changes nothing at all when
\* STATE is not NEUTRAL, it puts no element into the WAIT list and cancels
\* none when the step is not E1, and it never changes a flag, a call
\* register, the floor, a queue or the stack.
C25_DecisionFrame ==
    \A s \in DecisionCalls :
        /\ DecisionKeeps(s, decision(s))
        /\ s.state # stateNeutral => decision(s) = s
        /\ s.step # stepWaitForCall => DecisionKeepsAgenda(s, decision(s))

\* U2 is about to call the subroutine at E1 while the element elev1 points
\* to is pending: the subroutine cancels it and puts in another.
C25_Witness ==
    \E s \in DecisionCalls :
        /\ info[First].op = "U2"
        /\ s.step = stepWaitForCall
        /\ s.elev1 \in Range(ListOf(s, waitHead))
        /\ decision(s).elev1 # s.elev1
        /\ s.elev1 \notin Range(ListOf(decision(s), waitHead))

\* The users that arrived at the home floor with the elevator at E1 in
\* NEUTRAL state and wait in the queue of the home floor.
WokeWaiting == {u \in hist.woke \cap DOMAIN hist.enq : InQueue(u)}

\* E3 is due through elev1 at time t.
OpenDueAt(t) == elev1 \in Range(Wait) /\ info[elev1].op = "E3"
                   /\ info[elev1].nextTime = t

\* main is about to execute E3 with the elevator at E1.
OpensFromE1 == pc = "loop" /\ First # waitHead /\ info[First].op = "E3"
                   /\ step = stepWaitForCall

\* C26 as stated: when a rider arrives at the home floor at time t with the
\* elevator at E1 in NEUTRAL state, E3 is executed at exactly t + 20,
\* without travel.
C26_OpensTwentyAfterArrival ==
    [][(OpensFromE1 /\ last'.op = "E3") =>
           \A u \in WokeWaiting : time' = hist.enq[u] + 20 /\ floor' = floorHome]_vars

\* C26: when a rider arrives at the home floor at time t with the elevator
\* at E1 in NEUTRAL state, U2 schedules E3 for t + 20 and the elevator stays
\* at E1 at the home floor until E3 runs; every U2 or E9 that runs before
\* then replaces the pending E3 by one due 20 units after itself, so that E3
\* is executed 20 units after the last of them, at t + 20 or later, and
\* exactly at t + 20 when there is none.
C26_OpensTwentyAfterLastCall ==
    [][/\ (info[First].op = "U2" /\ last'.op = "U2"
              /\ users[FirstUser].in = floorHome
              /\ step = stepWaitForCall /\ state = stateNeutral) =>
             /\ OpenDueAt(time + 20)'
             /\ time' = time
             /\ step' = stepWaitForCall /\ state' = stateNeutral
       /\ WokeWaiting' # {} /\ step' = stepWaitForCall =>
             /\ OpenDueAt(hist.sig + 20)'
             /\ floor' = floorHome /\ state' = stateNeutral
             /\ Pending(Elev1Ops)' = {elev1'}
       /\ (OpensFromE1 /\ last'.op = "E3") =>
             /\ time' = hist.sig + 20
             /\ floor' = floorHome
             /\ \A u \in WokeWaiting :
                    /\ time' >= hist.enq[u] + 20
                    /\ hist.sig = hist.enq[u] => time' = hist.enq[u] + 20]_vars

\* E3 runs at the home floor 30 units after the arrival of a rider that
\* found the elevator at E1: another U2 ran 10 units after the arrival.
C26_Witness ==
    /\ last.op = "E3"
    /\ floor = floorHome
    /\ \E u \in WokeWaiting : time = hist.enq[u] + 30 /\ hist.sig = hist.enq[u] + 10

\* The floors with a register asserted ahead of the elevator in the
\* direction of travel of state s, and those behind it.
CallsAhead(s) ==
    {j \in Floors : /\ s.callUp[j] \/ s.callDown[j] \/ s.callCar[j]
                    /\ IF s.state = stateGoingUp THEN j > s.floor ELSE j < s.floor}

CallsBehind(s) ==
    {j \in Floors : /\ s.callUp[j] \/ s.callDown[j] \/ s.callCar[j]
                    /\ IF s.state = stateGoingUp THEN j < s.floor ELSE j > s.floor}

Reversed(st) == IF st = stateGoingUp THEN stateGoingDown ELSE stateGoingUp

\* E2 takes state s to state r as the claim says.
ChangeOfStateRule(s, r) ==
    /\ IF CallsAhead(s) = {}
       THEN /\ r.state = IF CallsBehind(s) = {} THEN stateNeutral
                         ELSE Reversed(s.state)
            /\ r.callUp = [s.callUp EXCEPT ![s.floor] = FALSE]
            /\ r.callDown = [s.callDown EXCEPT ![s.floor] = FALSE]
            /\ r.callCar = [s.callCar EXCEPT ![s.floor] = FALSE]
       ELSE /\ r.state = s.state
            /\ r.callUp = s.callUp
            /\ r.callDown = s.callDown
            /\ r.callCar = s.callCar
    /\ r.floor = s.floor
    /\ r.time = s.time
    /\ r.rlink[waitHead] = r.elev1
    /\ r.info[r.elev1] = newWaitElement(s.time, "E3", 0, TRUE)

\* The state after construction with the elevator travelling: at floor f in
\* state st with the given registers.
Travelling(f, st, cu, cd, cc) ==
    [Cur EXCEPT !.floor = f, !.state = st,
                !.step = IF st = stateGoingUp THEN stepGoUpAFloor
                                              ELSE stepGoDownAFloor,
                !.callUp = cu, !.callDown = cd, !.callCar = cc]

C28_ClearedAtFloorOnly ==
    [][/\ \A g \in Floors :
             ((callUp[g] /\ ~callUp'[g]) \/ (callDown[g] /\ ~callDown'[g])
                  \/ (callCar[g] /\ ~callCar'[g])) =>
                 /\ last'.op \in {"E2", "E6"}
                 /\ floor = g /\ floor' = g
       /\ (info[First].op = "E6" /\ last'.op = "E6") =>
             /\ ~callCar'[floor]
             /\ callUp'[floor] = IF state = stateGoingDown THEN callUp[floor]
                                                           ELSE FALSE
             /\ callDown'[floor] = IF state = stateGoingUp THEN callDown[floor]
                                                           ELSE FALSE
             /\ \A g \in Floors \ {floor} :
                    /\ callUp'[g] = callUp[g]
                    /\ callDown'[g] = callDown[g]
                    /\ callCar'[g] = callCar[g]]_vars

\* E6 has run in GOINGDOWN state and has left callUp of its floor asserted.
C28_Witness ==
    /\ last.op = "E6"
    /\ state = stateGoingDown
    /\ callUp[floor]
    /\ ~callDown[floor] /\ ~callCar[floor]

\* The U5 or U6 executed last since the doors began to open or to close.
LastAct == hist.acts[Len(hist.acts)]

\* main is about to execute U5 for a user: the user waits at the elevator's
\* floor and nobody in the car has this floor as destination.
BoardsAfterAlighting ==
    (info[First].op = "U5" /\ last'.op = "U5") =>
        /\ users[FirstUser].in = floor
        /\ InQueue(FirstUser)
        /\ RidersTo(floor) = {}
        /\ floor' = floor

\* The first E4 after E3 runs 20 units after it.
LetsInAfterOpening ==
    (info[First].op = "E4" /\ last'.op = "E4" /\ step = stepOpenDoors) =>
        time' = hist.opened + 20

Place(n) == IF n \in Range(Wait)
            THEN CHOOSE i \in 1..Len(Wait) : Wait[i] = n
            ELSE 0

\* After a U5 in NEUTRAL state at time t: E5 is due at t + 25 through elev2,
\* and E4 is due at t + 25 in front of it, or has run at t + 25.
QuickClose ==
    hist.quick >= 0 =>
        /\ state # stateNeutral
        /\ Pending({"E5"}) = {elev2}
        /\ info[elev2].nextTime = hist.quick + 25
        /\ time <= hist.quick + 25
        /\ \/ /\ LetInDueAt(hist.quick + 25)
              /\ Place(elev1) < Place(elev2)
              /\ d1
           \/ /\ time = hist.quick + 25
              /\ step = stepLetPeopleOutIn
              /\ last.op \in {"E4", "U5", "U6"}
              /\ hist.acts # <<>>

\* C30: when a user gets in (U5) at time t in NEUTRAL state, the state
\* becomes GOINGUP or GOINGDOWN as its destination is above or below its
\* origin and the pending E5 is replaced by one due at t + 25; at t + 25 the
\* repeated E4 runs before that E5; the E5 starts to close the doors (E6
\* after 20 units) if and only if that E4 found nobody to let out or in, and
\* otherwise it flutters and is due again 40 units later.
C30_QuickClose ==
    [][/\ (info[First].op = "U5" /\ last'.op = "U5" /\ state = stateNeutral) =>
             \A u \in {FirstUser} :
                 /\ state' = IF users[u].out > users[u].in THEN stateGoingUp
                                                           ELSE stateGoingDown
                 /\ hist'.quick = time'
       /\ QuickClose'
       /\ (info[First].op = "E5" /\ last'.op = "E5" /\ hist.quick >= 0) =>
             /\ time' = hist.quick + 25
             /\ time = time'
             /\ step = stepLetPeopleOutIn /\ step' = stepCloseDoors
             /\ \/ /\ last.op = "E4" /\ ~d1 /\ d3
                   /\ ~d3' /\ ~d1'
                   /\ Pending({"E6"})' = {elev1'}
                   /\ info'[elev1'].nextTime = time' + 20
                   /\ Pending({"E5"})' = {}
                \/ /\ last.op \in {"U5", "U6"} /\ LastAct.t = time /\ d1
                   /\ d1' /\ ~d3'
                   /\ Pending({"E5"})' = {elev2'}
                   /\ info'[elev2'].nextTime = time' + 40
                   /\ LetInDueAt(time + 25)']_vars

\* A user got in at time t in NEUTRAL state, E4 let another user in at
\* t + 25, and the E5 of t + 25 has just fluttered.
C30_Witness ==
    /\ last.op = "E5"
    /\ d1
    /\ Len(hist.acts) >= 2
    /\ LastAct.op = "U5"
    /\ LastAct.t = time
    /\ hist.acts[Len(hist.acts) - 1].op = "U5"
    /\ hist.acts[Len(hist.acts) - 1].t = time - 25
    /\ Pending({"E5"}) = {elev2}
    /\ info[elev2].nextTime = time + 40

\* The time E7 / E8 takes per floor and the time to decelerate, by state.
FloorTime(st) == IF st = stateGoingUp THEN 51 ELSE 61
StopTime(st) == IF st = stateGoingUp THEN 14 ELSE 23

\* The floors travelled since the last E6.
Travelled == Len(hist.trip.moves)

\* C31: when E6 at time t leaves the state GOINGUP and the elevator next
\* stops k >= 1 floors above, the floor is incremented at t + 15,
\* t + 15 + 51, ..., and E2 is executed at t + 15 + 51 * k + 14; with
\* GOINGDOWN, E2 is executed at t + 15 + 61 * k + 23.
C31_TravelTime ==
    [][/\ (info[First].op = "E2" /\ last'.op = "E2") =>
             /\ hist.trip.state \in {stateGoingUp, stateGoingDown}
             /\ Travelled >= 1
             /\ floor = IF hist.trip.state = stateGoingUp
                        THEN hist.trip.from + Travelled
                        ELSE hist.trip.from - Travelled
             /\ \A i \in 1..Travelled :
                    hist.trip.moves[i] =
                        hist.trip.t + 15 + (i - 1) * FloorTime(hist.trip.state)
             /\ time' = hist.trip.t + 15
                            + Travelled * FloorTime(hist.trip.state)
                            + StopTime(hist.trip.state)
       /\ floor' # floor =>
             /\ last'.op = IF hist.trip.state = stateGoingUp THEN "E7" ELSE "E8"
             /\ floor' = IF hist.trip.state = stateGoingUp THEN floor + 1
                                                          ELSE floor - 1
             /\ time' = hist.trip.t + 15
                            + Travelled * FloorTime(hist.trip.state)]_vars

\* E2 has just been executed two floors above the floor of the last E6.
C31_Witness ==
    /\ last.op = "E2"
    /\ hist.trip.state = stateGoingUp
    /\ Travelled = 2
    /\ floor = hist.trip.from + 2
    /\ time = hist.trip.t + 15 + 2 * 51 + 14

(***************************************************************************)
(* Busy periods.  Three users within 140 units of time do not fit in the   *)
(* bounds of Spec, so they are explored in runs with one user more and     *)
(* fewer draws: every origin, the lowest or the highest other floor as     *)
(* destination, and the two short interarrival times of the model and 20   *)
(* units, the delay after which DECISION schedules E3 or E6, so that an    *)
(* arrival coincides with the action the arrival before it started; the    *)
(* last user the model admits draws the longest one, so that the run goes  *)
(* on until the elevator is dormant again.                                 *)
(***************************************************************************)
CrowdUsers == MaxUsers + 1

CrowdDraws == {0, floors - 2}

CrowdInterTimes(id) ==
    IF id < CrowdUsers THEN {i \in InterTimes : i <= 70} \cup {2 * minInterTime}
    ELSE {i \in InterTimes : i > 270}

ArrivalCrowd(s) ==
    \E in \in 0..(floors - 1), r \in CrowdDraws,
       g \in GiveUpTimes, i \in CrowdInterTimes(s.userID + 1) :
        Commit(userEnterPrepareForSuccessor(s, in, r, g, i), "U1", s.userID + 1)

MainStartCrowd == pc = "start" /\ ArrivalCrowd(Cur)

U1Crowd == Ready("U1") /\ userID < CrowdUsers /\ ArrivalCrowd(Popped)

NextCrowd ==
    \/ MainStartCrowd
    \/ U1Crowd \/ U2 \/ U3 \/ U4 \/ U5 \/ U6
    \/ E1 \/ E2 \/ E3 \/ E4 \/ E5 \/ E6 \/ E7 \/ E7b \/ E8 \/ E8b \/ E9

SpecCrowd == Init /\ [][NextCrowd]_vars

\* U2 has made E3 the next action of the elevator, due at once.
SentToOpen ==
    /\ elev1' # elev1
    /\ elev1' \in Range(Wait')
    /\ info'[elev1'].op = "E3"
    /\ info'[elev1'].nextTime = time'

\* C32: U2 sends the elevator to E3 at once, cancelling the action pending
\* through elev1, only when the elevator is at the user's floor and that
\* pending action is E6 (the doors are closing); a U2 never cancels or
\* replaces a pending E4.
C32_ReopenOnlyWhenClosing ==
    [][(info[First].op = "U2" /\ last'.op = "U2") =>
           /\ SentToOpen =>
                  /\ floor = users[FirstUser].in
                  /\ Pending({"E6"}) = {elev1}
           /\ Pending({"E4"}) # {} =>
                  /\ Pending({"E4"})' = Pending({"E4"})
                  /\ elev1' = elev1]_vars

\* A user whose U2 found the doors of its floor open with D3 true, until it
\* is in the car: D1 is true and D3 false, the clock has not moved, and the
\* next instructions are U3 and the restarted E4, or that E4 with the user
\* alone in the queue, or the user's U5.
IdleBoards(u) ==
    /\ floor = users[u].in
    /\ d1 /\ ~d3
    /\ step = stepLetPeopleOutIn
    /\ Len(Agenda) >= 1
    /\ IF u \notin DOMAIN hist.enq
       THEN /\ last = [op |-> "U2", u |-> u]
            /\ Len(Agenda) >= 2
            /\ Agenda[1] = newWaitElement(time, "U3", u, TRUE)
            /\ Agenda[2] = newWaitElement(time, "E4", 0, TRUE)
            /\ Queue(floor) = <<>>
       ELSE /\ time = hist.enq[u]
            /\ \/ /\ last = [op |-> "U3", u |-> u]
                  /\ Agenda[1] = newWaitElement(time, "E4", 0, TRUE)
                  /\ Riders(Queue(floor)) = {u}
                  /\ RidersTo(floor) = {}
               \/ /\ last.op = "E4"
                  /\ Agenda[1] = newWaitElement(time, "U5", u, TRUE)

\* C33: when U2 runs for a user at the elevator's floor while D3 is true, D3
\* becomes false and D1 true, the user enters its queue before the restarted
\* E4 runs, and the user gets in (U5) at the instant of its arrival, before
\* E5 runs.
C33_BoardsAtOpenDoors ==
    [][/\ (info[First].op = "U2" /\ last'.op = "U2"
              /\ floor = users[FirstUser].in /\ d3) =>
             \A u \in {FirstUser} :
                 /\ u \in hist'.idle
                 /\ ~d3' /\ d1'
                 /\ time' = time
       /\ \A u \in hist'.idle :
             /\ u \notin Riders(Stack)' \cup left' => IdleBoards(u)'
             /\ (u \notin Riders(Stack) /\ u \in Riders(Stack)') =>
                    /\ last' = [op |-> "U5", u |-> u]
                    /\ last.op = "E4"
                    /\ time' = hist.enq[u]
                    /\ time' = time
             /\ (u \in hist.idle /\ u \notin Riders(Stack) \cup left) =>
                    u \notin left']_vars

\* A user that arrived at idle open doors has just got in, at the instant
\* of its arrival, and E5 is still pending.
C33_Witness ==
    /\ last.op = "U5"
    /\ last.u \in hist.idle
    /\ time = hist.enq[last.u]
    /\ last.u \in Riders(Stack)
    /\ Pending({"E5"}) = {elev2}

\* The instruction main executes next is op for user u, due at once.
NextIs(op, u) ==
    /\ First # waitHead
    /\ info[First] = newWaitElement(time, op, u, TRUE)

\* C34: U1, U2 and U3 of a user are executed one after the other at the
\* instant of its arrival with no other instruction in between, whatever
\* else is due at that instant; after U3 the user is in the queue of its
\* floor and its U4 is due GIVEUPTIME units after the arrival, whichever
\* case of U2 applied; and exactly one U1 is pending.
C34_ArrivalIsAtomic ==
    /\ [](/\ last.op = "U1" => NextIs("U2", last.u) /\ last.u = userID
          /\ last.op = "U2" => NextIs("U3", last.u)
          /\ pc = "loop" => Cardinality(Pending({"U1"})) = 1)
    /\ [][/\ last'.op = "U2" =>
               last.op = "U1" /\ last'.u = last.u /\ time' = time
         /\ last'.op = "U3" =>
               /\ last.op = "U2" /\ last'.u = last.u /\ time' = time
               /\ \A u \in {last.u} :
                      /\ InQueue(u)'
                      /\ TimerPending(u)'
                      /\ info'[users'[u].giveUp] =
                             newWaitElement(time + users[u].giveUpTime,
                                            "U4", u, FALSE)]_vars

\* A user has entered its queue at the instant of its arrival, and the
\* instruction that is next was scheduled earlier for that same instant.
C34_Witness ==
    /\ last.op = "U3"
    /\ InQueue(last.u)
    /\ TimerPending(last.u)
    /\ First # waitHead
    /\ info[First].nextTime = time
    /\ ~info[First].imm
    /\ info[First].op \in Elev1Ops

\* The steps at which the elevator is dormant, prepares to move, moves or
\* has just stopped.
MovingSteps == {stepWaitForCall, stepChangeOfState, stepPrepareToMove,
                stepGoUpAFloor, stepGoDownAFloor}

\* C35: E6, E7 and E8 are executed only while D1 and D3 are false, so the
\* floor changes only while both are false, and no E5 is pending while the
\* step is E6, E7, E8, E2 or E1.
C35_DoorsShutWhenMoving ==
    /\ [](step \in MovingSteps => Pending({"E5"}) = {} /\ ~d1 /\ ~d3)
    /\ [][/\ (info[First].op \in {"E6", "E7", "E7b", "E8", "E8b"}
                  /\ last'.op = info[First].op) =>
                 ~d1 /\ ~d3 /\ ~d1' /\ ~d3'
          /\ floor' # floor =>
                 /\ last'.op \in {"E7", "E8"}
                 /\ ~d1 /\ ~d3 /\ ~d1' /\ ~d3']_vars

\* The elevator has just gone up a floor with a user on board.
C35_Witness ==
    /\ last.op = "E7"
    /\ Riders(Stack) # {}
    /\ ~d1 /\ ~d3
    /\ Pending({"E5"}) = {}

\* C36: D1 and D3 are never both true, and D3 is false whenever the step is
\* E5.
C36_DoorFlagsExclusive ==
    /\ ~(d1 /\ d3)
    /\ step = stepCloseDoors => ~d3

\* E5 has just found D1 true and left the doors open: the step is E5, D1 is
\* true, and E5 and E4 are both pending.
C36_Witness ==
    /\ last.op = "E5"
    /\ step = stepCloseDoors
    /\ d1 /\ ~d3
    /\ Pending({"E5"}) = {elev2}
    /\ Pending({"E4"}) = {elev1}

\* The elevator is about to move, moves, or has just stopped.
EnRoute ==
    \/ step = stepPrepareToMove /\ state # stateNeutral
    \/ step \in {stepGoUpAFloor, stepGoDownAFloor, stepChangeOfState}

\* C37: a pending E9 implies that D2 is true; no E9 is pending while the
\* step is E6 with a state other than NEUTRAL, E7, E8 or E2; and E9 is
\* executed exactly 300 units after the last E3.
C37_InactionTimer ==
    /\ [](/\ Pending({"E9"}) # {} =>
                /\ d2
                /\ Pending({"E9"}) = {elev3}
                /\ info[elev3].nextTime = hist.opened + 300
          /\ EnRoute => Pending({"E9"}) = {})
    /\ [][(info[First].op = "E9" /\ last'.op = "E9") =>
              /\ time' = hist.opened + 300
              /\ d2 /\ ~d2'
              /\ ~EnRoute
              /\ Pending({"E9"})' = {}]_vars

\* E9 has just been executed, 300 units after the last E3, while the
\* elevator is dormant.
C37_Witness ==
    /\ last.op = "E9"
    /\ time = hist.opened + 300
    /\ ~d2
    /\ step = stepWaitForCall

\* The users the runs of SpecLate admit.
AllUsers == 1..(LateUsers + MaxUsers)

\* C38: while a user is in the car and the elevator is not at its
\* destination, CALLCAR of the destination is asserted; the elevator does
\* not pass the destination of a user in the car but decelerates and goes
\* to E2 there; and every user in the car eventually gets out (U6), unless
\* main stops first.
C38_RidersGetOut ==
    /\ [](\A u \in Riders(Stack) :
              floor # users[u].out => callCar[users[u].out])
    /\ [][/\ (info[First].op = "E7b" /\ last'.op = "E7b"
                  /\ RidersTo(floor) # {}) =>
                 /\ elev1' \in Range(Wait')
                 /\ info'[elev1'] = newWaitElement(time' + 14, "E2", 0, FALSE)
          /\ (info[First].op = "E8b" /\ last'.op = "E8b"
                  /\ RidersTo(floor) # {}) =>
                 /\ elev1' \in Range(Wait')
                 /\ info'[elev1'] = newWaitElement(time' + 23, "E2", 0, FALSE)
          /\ \A u \in Riders(Stack) \ Riders(Stack)' :
                 /\ last' = [op |-> "U6", u |-> u]
                 /\ floor = users[u].out
                 /\ u \in left']_vars
    /\ \A u \in AllUsers :
           [](u \in Riders(Stack) => <>(u \in left \/ pc = "done"))

\* A user that drew its floors freely has got out at its destination, and
\* main has not stopped.
C38_Witness ==
    /\ last.op = "U6"
    /\ last.u > LateUsers
    /\ last.u \in left
    /\ last.u \in Range(hist.board)
    /\ floor = users[last.u].out
    /\ pc = "loop"

\* Some call register is asserted.
AnyCalls == \E j \in Floors : callUp[j] \/ callDown[j] \/ callCar[j]

\* C39: between instructions, when the step is E1 and some call register is
\* asserted or the state is not NEUTRAL, E3 or E6 is pending through elev1:
\* the elevator is never dormant with a call outstanding and nothing
\* scheduled.
C39_NoLostWakeUp ==
    (step = stepWaitForCall /\ (AnyCalls \/ state # stateNeutral)) =>
        /\ Pending({"E3", "E6"}) = {elev1}
        /\ info[elev1].nextTime <= hist.sig + 20
        /\ info[elev1].op = "E3" <=> state = stateNeutral

\* A user has called the dormant elevator to another floor and a second
\* user has arrived since: the step is E1, the state is not NEUTRAL and E6
\* is pending.
C39_Witness ==
    /\ step = stepWaitForCall
    /\ state # stateNeutral
    /\ AnyCalls
    /\ userID >= 2
    /\ last.op = "U3"
    /\ Pending({"E6"}) = {elev1}
    /\ info[elev1].nextTime > time

\* C40: U5 runs only while the elevator is at the user's origin with D1
\* true, and U6 only while it is at the user's destination with D1 true;
\* each runs right after the E4 that scheduled it, at the same instant,
\* with no instruction in between; and after U5 the user's U4 is not
\* pending.
C40_InOutAtOpenDoors ==
    /\ [](Pending({"U5", "U6"}) # {} =>
              /\ last.op = "E4"
              /\ Pending({"U5", "U6"}) = {First}
              /\ info[First].nextTime = time
              /\ LetInDueAt(time + 25))
    /\ [][/\ (info[First].op = "U5" /\ last'.op = "U5") =>
                 \A u \in {FirstUser} :
                     /\ floor = users[u].in
                     /\ d1 /\ d1'
                     /\ Riders(Queue(floor)) # {}
                     /\ info[rlink[queueHead(floor)]] = u
                     /\ time' = time
                     /\ u \in Riders(Stack)'
                     /\ ~InQueue(u)'
                     /\ ~TimerPending(u)'
                     /\ \A n \in Range(Wait') :
                            ~(info'[n].op = "U4" /\ info'[n].u = u)
          /\ (info[First].op = "U6" /\ last'.op = "U6") =>
                 \A u \in {FirstUser} :
                     /\ floor = users[u].out
                     /\ d1 /\ d1'
                     /\ u \in Riders(Stack)
                     /\ time' = time
                     /\ u \notin Riders(Stack)'
                     /\ u \in left'
          /\ (last.op = "E4" /\ ~d3) =>
                 last'.op \in {"U5", "U6"} /\ time' = time]_vars

\* A user has just got in before its patience ran out, and its U4 is no
\* longer in the WAIT list.
C40_Witness ==
    /\ last.op = "U5"
    /\ floor = users[last.u].in
    /\ d1
    /\ last.u \in Riders(Stack)
    /\ time < Deadline(last.u)
    /\ ~TimerPending(last.u)

====
